---- MODULE Spec2Model ----
(***************************************************************************)
(* A model of the forecast normalization and geospatial resolution layer  *)
(* of medi-snow:                                                           *)
(*   - weather.mapForecastAPIResponseToForecast (time-series aligner,      *)
(*     daily aggregator, forecast assembler),                              *)
(*   - nac.FindZone / pointInPolygon / MapLayerGeometry.UnmarshalJSON,     *)
(*   - location.GetForecastPoint (two concurrent provider calls),          *)
(*   - avalanche.GetForecast, mapForecastResponse, extractMediaURL,        *)
(*     parseSize and ParseLikelihood,                                      *)
(*   - weatherService.GetForecast and timezone.NewService (the singleton   *)
(*     behind sync.Once, called by several goroutines),                    *)
(*   - minFloat, maxFloat, sum, the unit constructors, NewWeather and      *)
(*     types.NewWindDirection, each called on its own.                     *)
(*                                                                         *)
(* Go slices are sequences; Go indices are kept 0-based in the variables   *)
(* and converted with At.  float64 values are integers: every input drawn  *)
(* below is a small integer, on which the float operations the code uses   *)
(* (comparison, addition, and the one division in pointInPolygon, whose    *)
(* result is only compared against an integer) agree with exact            *)
(* arithmetic.                                                             *)
(***************************************************************************)
EXTENDS Integers, Sequences, FiniteSets, TLC

VARIABLES
    component,          \* the operation this behaviour runs
    pc,                 \* position in the running operation
    \* ---- weather.mapForecastAPIResponseToForecast
    forecastPoint,      \* argument forecastPoint
    primaryModel,       \* argument primaryModel
    apiResponse,        \* argument apiResponse (*openmeteo.ForecastAPIResponse)
    currentTime,        \* time.Now(), in hours
    scanI,              \* loop variable i of the nowIndex scan
    nowIndex,
    currentConditions,
    dayI,               \* loop variable i of the daily loop
    dayTime,
    hourlyIndex,
    j,                  \* loop variable j of the hourly loop
    hourlyForecasts,
    dailyForecasts,
    reads,              \* the arrays of apiResponse an element was read from
    ret,                \* what the call returned: (forecast, err) or a panic
    \* ---- nac.GetMapLayer decoding and nac.FindZone
    rawLayer,           \* the GeoJSON features as the provider sent them
    mapLayer,           \* the decoded *MapLayerResponse
    lat,                \* argument lat
    lon,                \* argument lon
    fi,                 \* loop variable i of FindZone (feature)
    ri,                 \* position of the ring loop of FindZone
    tested,             \* the ring last handed to pointInPolygon
    inside,             \* what pointInPolygon returned for it
    zone,               \* what FindZone returned
    forecastProvider,   \* what forecastProvider.GetForecast will return: "ok" or "error"
    avRet,              \* what avalancheService.GetForecast returned
    calls,              \* invocations of mapForecastAPIResponseToForecast so far
    previous,           \* what the invocation before this one returned and was given
    \* ---- location.locationService.GetForecastPoint
    logger,             \* field logger of the service: "set" or "nil"
    elevationProvider,  \* what GetElevationPoint will return: (resp, err)
    locationProvider,   \* what Lookup will return: (resp, err)
    latitude,           \* argument latitude
    longitude,          \* argument longitude
    wg,                 \* counter of the sync.WaitGroup
    elevationResp,
    elevationErr,
    locationResp,
    locationErr,
    pcElevation,        \* position of the elevation goroutine
    pcLocation,         \* position of the location goroutine
    order,              \* the goroutines in the order they called wg.Done
    fpRet,              \* what GetForecastPoint returned
    \* ---- the functions called on their own
    fn,                 \* the function that was called, "none" before the call
    arg,                \* its argument
    out,                \* its result
    \* ---- timezone.NewService
    once,               \* the sync.Once: "fresh", "running" or "done"
    instance,           \* the package variable instance: 0 is nil, otherwise the service allocated
    inits,              \* calls of tzf.NewDefaultFinder so far
    finderFails,        \* whether tzf.NewDefaultFinder returns an error
    pcT,                \* position of each caller of NewService
    errT,               \* local variable err of each caller
    retT,               \* what NewService returned to each caller
    \* ---- weatherService.GetForecast and the calls the services make
    timezoneService,    \* what GetTimezone will return: (tz, err)
    weatherProvider,    \* what the weather forecastProvider.GetForecast will return
    tzName,             \* local variable tz of weatherService.GetForecast
    wsRet,              \* what weatherService.GetForecast returned
    providerCalls       \* the calls made on providers, in order, with their arguments

mapVars == <<forecastPoint, primaryModel, apiResponse, currentTime, scanI,
             nowIndex, currentConditions, dayI, dayTime, hourlyIndex, j,
             hourlyForecasts, dailyForecasts, reads, ret, calls, previous>>

zoneVars == <<rawLayer, mapLayer, lat, lon, fi, ri, tested, inside, zone,
              forecastProvider, avRet>>

locVars == <<logger, elevationProvider, locationProvider, latitude, longitude, wg,
             elevationResp, elevationErr, locationResp, locationErr, pcElevation,
             pcLocation, order, fpRet>>

pureVars == <<fn, arg, out>>

tzVars == <<once, instance, inits, finderFails, pcT, errT, retT>>

wsVars == <<timezoneService, weatherProvider, tzName, wsRet>>

vars == <<component, pc, mapVars, zoneVars, locVars, pureVars, tzVars, wsVars, providerCalls>>

(***************************************************************************)
(* Bounds of the model.                                                    *)
(***************************************************************************)
MaxExtraHours == 2      \* hourly runs reach up to this many hours past one day
MaxDays == 3            \* daily series hold up to this many dates
MaxSeed == 1            \* families of array contents
MaxFreeLen == 3         \* length of the freely ordered hourly series
MaxNow == 2             \* choices of "now"
MaxSliceLen == 3        \* length of the slices given to minFloat, maxFloat, sum
MaxAbs == 2             \* their elements are the integers -MaxAbs..MaxAbs
MaxSizes == 3           \* length of the lists given to parseSize
MaxEntries == 2         \* danger, problem and forecast-zone entries of a forecast response
MaxCodeMargin == 10     \* weather codes tried: -MaxCodeMargin..(99 + MaxCodeMargin)
NumCallers == 4         \* goroutines calling timezone.NewService
MaxScalar == 10         \* scalars given to the unit constructors: -MaxScalar..(32 + MaxScalar)
MaxOutside == 5         \* degrees are drawn from -MaxOutside..(FullCircle - 1 + MaxOutside)
GridMax == 16           \* points are drawn from the grid -1..GridMax squared

(***************************************************************************)
(* Program constants.                                                      *)
(***************************************************************************)
HoursPerDay == 24       \* hours in the calendar day Year()/Month()/Day() name
IndexSlots == 24        \* make([]int, 24)
FullCircle == 360       \* degrees >= 360 is out of range

\* ------------------------------------------------------------------------
\* Generic helpers
\* ------------------------------------------------------------------------
At(s, k) == s[k + 1]
InRange(s, k) == k >= 0 /\ k < Len(s)
Max2(a, b) == IF a > b THEN a ELSE b
Min2(a, b) == IF a < b THEN a ELSE b
SetMax(S) == CHOOSE x \in S : \A y \in S : y <= x
SetMin(S) == CHOOSE x \in S : \A y \in S : x <= y

\* ------------------------------------------------------------------------
\* Models and the fixed per-variable model lists
\* ------------------------------------------------------------------------
ModelGemSeamless == "GemSeamless"
ModelEcmwIfs == "EcmwIfs"
ModelGfsSeamless == "GfsSeamless"
ModelNcepNbmConus == "NcepNbmConus"
ModelGfsGraphcast025 == "GfsGraphcast025"
ModelEcmwfAifs025Single == "EcmwfAifs025Single"
ModelNcepNamConus == "NcepNamConus"

Models == {ModelGemSeamless, ModelEcmwIfs, ModelGfsSeamless, ModelNcepNbmConus,
           ModelGfsGraphcast025, ModelEcmwfAifs025Single, ModelNcepNamConus}

ModelOrder == <<ModelGfsSeamless, ModelGemSeamless, ModelEcmwIfs, ModelNcepNbmConus,
                ModelGfsGraphcast025, ModelEcmwfAifs025Single, ModelNcepNamConus>>
ModelNo(m) == CHOOSE k \in 1..Len(ModelOrder) : ModelOrder[k] = m

NoGraphcast == Models \ {ModelGfsGraphcast025}
NoNbm == Models \ {ModelNcepNbmConus}
VisibilityOfEveryModel == Models
VisibilityModels == {ModelGfsSeamless, ModelEcmwIfs, ModelNcepNbmConus, ModelNcepNamConus}
GustModels == Models \ {ModelGfsGraphcast025, ModelEcmwfAifs025Single}
PrecipitationProbabilityModels ==
    {ModelGfsSeamless, ModelGemSeamless, ModelEcmwIfs, ModelNcepNbmConus}
SnowDepthModels == {ModelGfsSeamless, ModelGemSeamless, ModelEcmwIfs, ModelNcepNamConus}
FreezingLevelModels == {ModelGfsSeamless}

\* The hourly arrays indexed with [nowIndex] by the CurrentConditions literal.
CurrentReads ==
    [Temperature2M |-> Models, WeatherCode |-> Models, WindSpeed10M |-> Models,
     WindGusts10M |-> GustModels, WindDirection10M |-> Models,
     Visibility |-> VisibilityModels, CloudCover |-> Models,
     RelativeHumidity2M |-> NoGraphcast, CloudCoverLow |-> NoNbm,
     CloudCoverMid |-> NoNbm, CloudCoverHigh |-> NoNbm]

\* The hourly arrays indexed with [j] by the HourlyForecast literal.
HourlyReads ==
    [FreezingLevelHeight |-> FreezingLevelModels, IsDay |-> Models,
     WeatherCode |-> Models, Temperature2M |-> Models,
     ApparentTemperature |-> NoGraphcast,
     PrecipitationProbability |-> PrecipitationProbabilityModels,
     Precipitation |-> Models, CloudCover |-> Models, CloudCoverLow |-> NoNbm,
     CloudCoverMid |-> NoNbm, CloudCoverHigh |-> NoNbm,
     Visibility |-> VisibilityModels, WindSpeed10M |-> Models,
     WindGusts10M |-> GustModels, WindDirection10M |-> Models,
     RelativeHumidity2M |-> NoGraphcast, Rain |-> Models, Snowfall |-> Models,
     Showers |-> Models, SnowDepth |-> SnowDepthModels]

\* The daily arrays indexed with [i] by the DailyForecast literal.
DailyReads ==
    [WeatherCode |-> Models, SnowfallWaterEquivalentSum |-> NoGraphcast,
     Sunrise |-> Models, Sunset |-> Models, WindDirection10MDominant |-> NoGraphcast]

\* The hourly arrays sliced with [hourlySliceStart:hourlySliceEnd] by the
\* DailyForecast literal.
SliceReads ==
    [FreezingLevelHeight |-> FreezingLevelModels, Temperature2M |-> Models,
     WindSpeed10M |-> Models, WindGusts10M |-> GustModels, Rain |-> Models,
     Precipitation |-> Models, Showers |-> Models, Snowfall |-> Models]

HourlyVarOrder ==
    <<"Temperature2M", "Rain", "Showers", "Snowfall", "Precipitation",
      "WindSpeed10M", "WindGusts10M", "FreezingLevelHeight", "Visibility",
      "WeatherCode", "IsDay", "ApparentTemperature", "PrecipitationProbability",
      "CloudCover", "CloudCoverLow", "CloudCoverMid", "CloudCoverHigh",
      "WindDirection10M", "RelativeHumidity2M", "SnowDepth",
      "SnowfallWaterEquivalentSum", "Sunrise", "Sunset", "WindDirection10MDominant">>
VarNo(v) == CHOOSE k \in 1..Len(HourlyVarOrder) : HourlyVarOrder[k] = v

\* ------------------------------------------------------------------------
\* Timestamps.  A provider string is its layout and the instant it spells;
\* instants are hours since the start of day 0 in the response timezone.
\* ------------------------------------------------------------------------
HourLayout == "2006-01-02T15:04"
DateLayout == "2006-01-02"
HourStr(h) == [layout |-> HourLayout, v |-> h]
DateStr(d) == [layout |-> DateLayout, v |-> d]
Garbage == [layout |-> "garbage", v |-> 0]

\* time.ParseInLocation(layout, value, location)
ParseAnything(layout, s) == [err |-> FALSE, t |-> s.v]
ParseInLocation(layout, s) ==
    IF s.layout # layout THEN [err |-> TRUE, t |-> 0]
    ELSE IF layout = DateLayout THEN [err |-> FALSE, t |-> s.v * HoursPerDay]
    ELSE [err |-> FALSE, t |-> s.v]

\* (Year(), Month(), Day()) of an instant
DateOf(t) == t \div HoursPerDay

\* hourlyTime.Year() == dayTime.Year() && ... Month() ... && ... Day() ...
SameDay(hourlyTime, day) == DateOf(hourlyTime) = DateOf(day)

\* parsedTime.After(currentTime)
AfterOrAt(t, u) == t >= u
After(t, u) == t > u

\* time.LoadLocation succeeds on the zones of the tz database
KnownZones == {"America/Denver", "UTC"}
LoadLocationIgnoringErr(tz) == TRUE
LoadLocationOk(tz) == tz \in KnownZones

\* ------------------------------------------------------------------------
\* Unit value types.  The secondary unit is kept as an exact integer multiple:
\* Celsius in ninths of a degree, millimetres in tenths, km/h in 1e-5.
\* ------------------------------------------------------------------------
TemperatureUnshifted(fahrenheit) ==
    [Fahrenheit |-> fahrenheit, CelsiusNinths |-> fahrenheit * 5]

NewTemperatureFromFahrenheit(fahrenheit) ==
    [Fahrenheit |-> fahrenheit, CelsiusNinths |-> (fahrenheit - 32) * 5]
NewPrecipitationFromInches(amountInInches) ==
    [Inches |-> amountInInches, MmTenths |-> amountInInches * 254]
NewWindSpeedFromMph(speedInMph) ==
    [Mph |-> speedInMph, KphE5 |-> speedInMph * 160934]

\* ------------------------------------------------------------------------
\* minFloat, maxFloat, sum
\* ------------------------------------------------------------------------
RECURSIVE MinLoop(_, _, _)
MinLoop(value, k, minValue) ==
    IF k > Len(value) THEN minValue
    ELSE MinLoop(value, k + 1, IF value[k] < minValue THEN value[k] ELSE minValue)
FirstElement(value) == IF Len(value) = 0 THEN -1 ELSE value[1]
minFloat(value) == IF Len(value) = 0 THEN -1 ELSE MinLoop(value, 1, value[1])

RECURSIVE MaxLoop(_, _, _)
MaxLoop(value, k, maxValue) ==
    IF k > Len(value) THEN maxValue
    ELSE MaxLoop(value, k + 1, IF value[k] > maxValue THEN value[k] ELSE maxValue)
maxFloat(value) == IF Len(value) = 0 THEN -1 ELSE MaxLoop(value, 1, value[1])

RECURSIVE SumLoop(_, _, _)
SumLoop(value, k, total) ==
    IF k > Len(value) THEN total ELSE SumLoop(value, k + 1, total + value[k])
sum(value) == SumLoop(value, 1, 0)

\* A Go slice expression a[lo:hi]; it panics unless 0 <= lo <= hi <= cap(a).
\* The decoded arrays have cap = len.
SliceOk(a, lo, hi) == 0 <= lo /\ lo <= hi /\ hi <= Len(a)
Slice(a, lo, hi) == SubSeq(a, lo + 1, hi)

\* ------------------------------------------------------------------------
\* ModelValues[T]: a map from model name to value
\* ------------------------------------------------------------------------
\* val, ok := w[model]; a missing key gives the zero value and false
GetForModel(w, model) ==
    IF model \in DOMAIN w THEN [val |-> w[model], ok |-> TRUE]
    ELSE [val |-> 0, ok |-> FALSE]
HasModel(w, model) == model \in DOMAIN w

\* ------------------------------------------------------------------------
\* Provider responses
\* ------------------------------------------------------------------------
\* The value the provider publishes for variable v, model m, position k (0-based).
HVal(v, m, k, seed) == (k * 7 + ModelNo(m) * 3 + VarNo(v) * 5 + seed * 11) % 13

FullShape == [kind |-> "full"]
ShortShape(sec, v, m, n) == [kind |-> "short", sec |-> sec, var |-> v, model |-> m, len |-> n]

ArrayLen(shape, sec, v, m, n) ==
    IF shape.kind = "short" /\ shape.sec = sec /\ shape.var = v /\ shape.model = m
    THEN shape.len ELSE n

\* One array per variable per model, each as long as its time series except
\* the one array the shape cuts short.
MkSeries(table, sec, n, seed, shape) ==
    [v \in DOMAIN table |->
        [m \in table[v] |->
            [k \in 1..ArrayLen(shape, sec, v, m, n) |-> HVal(v, m, k - 1, seed)]]]

MkResponse(tz, hourlyTime, dailyTime, seed, shape) ==
    [Timezone |-> tz,
     Hourly |-> [Time |-> hourlyTime,
                 Series |-> MkSeries(HourlyReads, "Hourly", Len(hourlyTime), seed, shape)],
     Daily |-> [Time |-> dailyTime,
                Series |-> MkSeries(DailyReads, "Daily", Len(dailyTime), seed, shape)]]

Run(s, n) == [k \in 1..n |-> HourStr(s + k - 1)]
DayRun(d, n) == [k \in 1..n |-> DateStr(d + k - 1)]
Damaged(series, p) == [k \in 1..Len(series) |-> IF k = p THEN Garbage ELSE series[k]]

Scenario == Run(0, HoursPerDay + 1)     \* 00:00 of day 0 .. 00:00 of day 1

RunLengths == {0, 1} \cup {HoursPerDay + e : e \in 0..MaxExtraHours}
AscendingRuns ==
    {Run(s, n) : s \in {0, HoursPerDay - 1}, n \in RunLengths}
    \cup {Damaged(Scenario, p) : p \in {1, 2, HoursPerDay, HoursPerDay + 1}}

FreeStrings == {Garbage, HourStr(0), HourStr(1), HourStr(HoursPerDay)}
RECURSIVE SeqsUpTo(_, _)
SeqsUpTo(S, n) ==
    IF n = 0 THEN {<<>>}
    ELSE LET shorter == SeqsUpTo(S, n - 1)
         IN shorter \cup {Append(q, x) : q \in {r \in shorter : Len(r) = n - 1}, x \in S}
FreeSeries == SeqsUpTo(FreeStrings, MaxFreeLen)

DailySeries ==
    {DayRun(d, n) : d \in {0, 1}, n \in 0..MaxDays}
    \cup {Damaged(DayRun(0, MaxDays), p) : p \in {1, 2}}

NowValues == {-1} \cup {k * (HoursPerDay \div 2) : k \in 0..MaxNow}
MidDay == HoursPerDay \div 2

ShortShapes ==
    {ShortShape("Hourly", v, ModelGfsSeamless, n) :
        v \in {"Temperature2M", "Rain", "SnowDepth", "FreezingLevelHeight"},
        n \in {0, MidDay, MidDay + 1, HoursPerDay}}
    \cup {ShortShape("Daily", v, ModelNcepNamConus, n) :
        v \in {"WeatherCode", "Sunrise"}, n \in {0, 1}}

Input(tz, hourlyTime, dailyTime, now, seed, shape) ==
    [tz |-> tz, hourly |-> hourlyTime, daily |-> dailyTime, now |-> now,
     seed |-> seed, shape |-> shape]

MapInputs ==
    \* well-formed responses: every day bucketing, every content family
    {Input("America/Denver", h, d, MidDay, s, FullShape) :
        h \in AscendingRuns, d \in DailySeries, s \in 0..MaxSeed}
    \* every position of "now"
    \cup {Input("America/Denver", h, DayRun(0, 2), n, 0, FullShape) :
        h \in AscendingRuns \cup FreeSeries, n \in NowValues}
    \* one array missing or short
    \cup {Input("America/Denver", Scenario, DayRun(0, 2), MidDay, 0, sh) :
        sh \in ShortShapes}
    \* a timezone name that does not resolve
    \cup {Input("Invalid/Timezone", h, d, MidDay, 0, FullShape) :
        h \in {Run(0, 0), Scenario}, d \in {DayRun(0, 0), DayRun(0, 2)}}

\* ------------------------------------------------------------------------
\* mapForecastAPIResponseToForecast
\* ------------------------------------------------------------------------
NilForecast == [isNil |-> TRUE]
NoReturn == [kind |-> "none", err |-> "", forecast |-> NilForecast]
Panic == [kind |-> "panic", err |-> "index out of range", forecast |-> NilForecast]
ErrorReturn(msg) == [kind |-> "error", err |-> msg, forecast |-> NilForecast]

\* every array of `table` has an element at index k
ReadsInRange(series, table, k) ==
    \A v \in DOMAIN table : \A m \in table[v] : InRange(series[v][m], k)

\* every array of `table` can be sliced [lo:hi]
SlicesInRange(series, table, lo, hi) ==
    \A v \in DOMAIN table : \A m \in table[v] : SliceOk(series[v][m], lo, hi)

\* make([]int, 24): never written after its allocation
dailyForecastHourlyIndexes == [k \in 1..IndexSlots |-> 0]
hourlySliceStart == At(dailyForecastHourlyIndexes, 0)
hourlySliceEnd == At(dailyForecastHourlyIndexes, Len(dailyForecastHourlyIndexes) - 1)

\* the liquid precipitation loop: range over the rain map, look the model up
\* in the showers map (the zero value when absent)
LiquidOfRainAlone(rainMap, showersMap) ==
    [m \in DOMAIN rainMap |-> NewPrecipitationFromInches(rainMap[m].Inches)]
LiquidOf(rainMap, showersMap) ==
    [m \in DOMAIN rainMap |->
        NewPrecipitationFromInches(
            rainMap[m].Inches
            + (IF m \in DOMAIN showersMap THEN showersMap[m].Inches ELSE 0))]

MkCurrentConditions(H, k) ==
    [Temperature |-> [m \in Models |-> NewTemperatureFromFahrenheit(At(H.Temperature2M[m], k))],
     Visibility |-> [m \in VisibilityModels |-> At(H.Visibility[m], k)],
     RelativeHumidity |-> [m \in NoGraphcast |-> At(H.RelativeHumidity2M[m], k)]]

MkHourlyForecast(H, start, k) ==
    LET rain == [m \in Models |-> NewPrecipitationFromInches(At(H.Rain[m], k))]
        showers == [m \in Models |-> NewPrecipitationFromInches(At(H.Showers[m], k))]
    IN [Start |-> start,
        End |-> start + 1,
        FreezingLevelHeight |-> [m \in FreezingLevelModels |-> At(H.FreezingLevelHeight[m], k)],
        Temperature |-> [m \in Models |-> NewTemperatureFromFahrenheit(At(H.Temperature2M[m], k))],
        Visibility |-> [m \in VisibilityModels |-> At(H.Visibility[m], k)],
        Rainfall |-> rain,
        Showers |-> showers,
        LiquidPrecipitation |-> LiquidOf(rain, showers)]

MkDailyForecast(H, D, i, day, hours, lo, hi) ==
    LET cut(v, m) == Slice(H[v][m], lo, hi)
        rain == [m \in Models |-> NewPrecipitationFromInches(sum(cut("Rain", m)))]
        showers == [m \in Models |-> NewPrecipitationFromInches(sum(cut("Showers", m)))]
    IN [HourlyForecasts |-> hours,
        Timestamp |-> day,
        Weather |-> [m \in Models |-> At(D.WeatherCode[m], i)],
        HighestFreezingLevelHeightFt |->
            [m \in FreezingLevelModels |-> maxFloat(cut("FreezingLevelHeight", m))],
        LowestFreezingLevelHeightFt |->
            [m \in FreezingLevelModels |-> minFloat(cut("FreezingLevelHeight", m))],
        HighTemperature |->
            [m \in Models |-> NewTemperatureFromFahrenheit(maxFloat(cut("Temperature2M", m)))],
        LowTemperature |->
            [m \in Models |-> NewTemperatureFromFahrenheit(minFloat(cut("Temperature2M", m)))],
        MaxWindSpeed |->
            [m \in Models |-> NewWindSpeedFromMph(maxFloat(cut("WindSpeed10M", m)))],
        MinWindSpeed |->
            [m \in Models |-> NewWindSpeedFromMph(minFloat(cut("WindSpeed10M", m)))],
        MaxWindGusts |->
            [m \in GustModels |-> NewWindSpeedFromMph(maxFloat(cut("WindGusts10M", m)))],
        MinWindGusts |->
            [m \in GustModels |-> NewWindSpeedFromMph(minFloat(cut("WindGusts10M", m)))],
        TotalRainfall |-> rain,
        TotalPrecipitation |->
            [m \in Models |-> NewPrecipitationFromInches(sum(cut("Precipitation", m)))],
        TotalShowers |-> showers,
        TotalSnowfall |->
            [m \in Models |-> NewPrecipitationFromInches(sum(cut("Snowfall", m)))],
        TotalLiquidPrecipitation |-> LiquidOf(rain, showers)]

MkForecast ==
    [isNil |-> FALSE,
     Timestamp |-> currentTime,          \* time.Now().UTC()
     ForecastPoint |-> forecastPoint,
     Timezone |-> apiResponse.Timezone,
     PrimaryModel |-> primaryModel,
     CurrentConditions |-> currentConditions,
     DailyForecasts |-> dailyForecasts]

NoPrevious == [ret |-> NoReturn, apiResponse |-> <<>>]
NoConditions == [Temperature |-> <<>>, Visibility |-> <<>>, RelativeHumidity |-> <<>>]

\* the variables of mapForecastAPIResponseToForecast while another operation runs
IdleMap ==
    /\ apiResponse = MkResponse("UTC", <<>>, <<>>, 0, FullShape)
    /\ currentTime = 0
    /\ forecastPoint = 0
    /\ primaryModel = ModelGfsSeamless
    /\ scanI = 0
    /\ nowIndex = 0
    /\ currentConditions = NoConditions
    /\ dayI = 0
    /\ dayTime = 0
    /\ hourlyIndex = 0
    /\ j = 0
    /\ hourlyForecasts = <<>>
    /\ dailyForecasts = <<>>
    /\ reads = {}
    /\ ret = NoReturn
    /\ calls = 1
    /\ previous = NoPrevious

\* the variables of a function called on its own while another operation runs
IdlePure ==
    /\ fn = "none"
    /\ arg = <<>>
    /\ out = 0

\* the variables of timezone.NewService and of weatherService.GetForecast
\* while another operation runs, and no call made on a provider yet
NoService == [kind |-> "none", service |-> [isNil |-> TRUE, ptr |-> 0], err |-> FALSE]
NoForecast == [kind |-> "none", err |-> "", forecast |-> [isNil |-> TRUE]]

IdleTz ==
    /\ once = "fresh"
    /\ instance = 0
    /\ inits = 0
    /\ finderFails = FALSE
    /\ pcT = <<>>
    /\ errT = <<>>
    /\ retT = <<>>

IdleWs ==
    /\ timezoneService = [tz |-> "", err |-> FALSE]
    /\ weatherProvider = "ok"
    /\ tzName = ""
    /\ wsRet = NoForecast

IdleServices ==
    /\ IdleTz
    /\ IdleWs
    /\ providerCalls = <<>>

\* avalancheService.GetForecast has not returned
NoAvalancheReturn == [kind |-> "none", err |-> "", forecast |-> [isNil |-> TRUE]]

\* the variables of FindZone while another operation runs
IdleZone ==
    /\ rawLayer = <<>>
    /\ mapLayer = [err |-> FALSE, Features |-> <<>>]
    /\ lat = 0
    /\ lon = 0
    /\ fi = 0
    /\ ri = 0
    /\ tested = <<>>
    /\ inside = FALSE
    /\ zone = [nil |-> TRUE]
    /\ forecastProvider = "ok"
    /\ avRet = NoAvalancheReturn

\* a nil pointer, a nil error
NilResp == [isNil |-> TRUE]
NilErr == <<>>
NoPoint == [kind |-> "none", point |-> [isNil |-> TRUE], err |-> NilErr]

\* the variables of GetForecastPoint while another operation runs
IdleLoc ==
    /\ logger = "set"
    /\ elevationProvider = [resp |-> NilResp, err |-> NilErr]
    /\ locationProvider = [resp |-> NilResp, err |-> NilErr]
    /\ latitude = 0
    /\ longitude = 0
    /\ wg = 0
    /\ elevationResp = NilResp
    /\ elevationErr = NilErr
    /\ locationResp = NilResp
    /\ locationErr = NilErr
    /\ pcElevation = "idle"
    /\ pcLocation = "idle"
    /\ order = <<>>
    /\ fpRet = NoPoint

InitMap ==
    /\ component = "weather"
    /\ IdleServices
    /\ IdlePure
    /\ IdleZone
    /\ IdleLoc
    /\ \E in \in MapInputs :
        /\ apiResponse = MkResponse(in.tz, in.hourly, in.daily, in.seed, in.shape)
        /\ currentTime = in.now
    /\ forecastPoint = 1
    /\ primaryModel = ModelGfsSeamless
    /\ pc = "start"
    /\ scanI = 0
    /\ nowIndex = 0
    /\ currentConditions = NoConditions
    /\ dayI = 0
    /\ dayTime = 0
    /\ hourlyIndex = 0
    /\ j = 0
    /\ hourlyForecasts = <<>>
    /\ dailyForecasts = <<>>
    /\ reads = {}
    /\ ret = NoReturn
    /\ calls = 1
    /\ previous = NoPrevious

\* forecast := &Forecast{...}; location, err := time.LoadLocation(...);
\* currentTime := ...; nowIndex := 0
LoadLocation ==
    /\ component = "weather" /\ pc = "start"
    /\ IF LoadLocationOk(apiResponse.Timezone)
       THEN /\ pc' = "scanNow"
            /\ ret' = ret
       ELSE /\ pc' = "done"
            /\ ret' = ErrorReturn("failed to load timezone location")
    /\ UNCHANGED <<component, tzVars, wsVars, providerCalls, pureVars, zoneVars, locVars, calls, previous, forecastPoint, primaryModel, apiResponse, currentTime,
                   scanI, nowIndex, currentConditions, dayI, dayTime, hourlyIndex,
                   j, hourlyForecasts, dailyForecasts, reads>>

\* one iteration of: for i, t := range apiResponse.Hourly.Time { ... }
ScanNow ==
    /\ component = "weather" /\ pc = "scanNow"
    /\ IF ~InRange(apiResponse.Hourly.Time, scanI)
       THEN /\ pc' = "current"
            /\ UNCHANGED <<scanI, nowIndex, reads>>
       ELSE LET parsed == ParseInLocation(HourLayout, At(apiResponse.Hourly.Time, scanI))
            IN /\ reads' = reads \cup {"Hourly.Time"}
               /\ IF parsed.err
                  THEN /\ scanI' = scanI + 1            \* continue
                       /\ UNCHANGED <<pc, nowIndex>>
                  ELSE IF After(parsed.t, currentTime)
                  THEN /\ pc' = "current"               \* break
                       /\ UNCHANGED <<scanI, nowIndex>>
                  ELSE /\ nowIndex' = scanI
                       /\ scanI' = scanI + 1
                       /\ pc' = pc
    /\ UNCHANGED <<component, tzVars, wsVars, providerCalls, pureVars, zoneVars, locVars, calls, previous, forecastPoint, primaryModel, apiResponse, currentTime,
                   currentConditions, dayI, dayTime, hourlyIndex, j, hourlyForecasts,
                   dailyForecasts, ret>>

\* currentConditions := CurrentConditions{...}; dailyForecasts := make(...);
\* hourlyIndex := 0
BuildCurrent ==
    /\ component = "weather" /\ pc = "current"
    /\ reads' = reads \cup {"Hourly"}
    /\ IF ReadsInRange(apiResponse.Hourly.Series, CurrentReads, nowIndex)
       THEN /\ currentConditions' = MkCurrentConditions(apiResponse.Hourly.Series, nowIndex)
            /\ pc' = "days"
            /\ ret' = ret
       ELSE /\ pc' = "done"
            /\ ret' = Panic
            /\ UNCHANGED currentConditions
    /\ UNCHANGED <<component, tzVars, wsVars, providerCalls, pureVars, zoneVars, locVars, calls, previous, forecastPoint, primaryModel, apiResponse, currentTime,
                   scanI, nowIndex, dayI, dayTime, hourlyIndex, j, hourlyForecasts,
                   dailyForecasts>>

\* head of: for i, day := range apiResponse.Daily.Time { ... }, down to the
\* start of the hourly loop; after the last day, return forecast, nil
DayHead ==
    /\ component = "weather" /\ pc = "days"
    /\ IF ~InRange(apiResponse.Daily.Time, dayI)
       THEN /\ pc' = "done"
            /\ ret' = [kind |-> "ok", err |-> "", forecast |-> MkForecast]
            /\ UNCHANGED <<dayI, dayTime, j, hourlyForecasts, reads>>
       ELSE LET parsed == ParseInLocation(DateLayout, At(apiResponse.Daily.Time, dayI))
            IN /\ reads' = reads \cup {"Daily.Time"}
               /\ ret' = ret
               /\ IF parsed.err
                  THEN /\ dayI' = dayI + 1              \* continue
                       /\ UNCHANGED <<pc, dayTime, j, hourlyForecasts>>
                  ELSE /\ dayTime' = parsed.t
                       /\ hourlyForecasts' = <<>>
                       /\ j' = hourlyIndex
                       /\ pc' = "hours"
                       /\ dayI' = dayI
    /\ UNCHANGED <<component, tzVars, wsVars, providerCalls, pureVars, zoneVars, locVars, calls, previous, forecastPoint, primaryModel, apiResponse, currentTime,
                   scanI, nowIndex, currentConditions, hourlyIndex, dailyForecasts>>

\* the assignment to the cursor when an hour of the day is found
CursorBehind(k) == k - 1
CursorAfter(k) == k

\* one iteration of: for j := hourlyIndex; j < len(apiResponse.Hourly.Time); j++
HourStep ==
    /\ component = "weather" /\ pc = "hours"
    /\ IF ~InRange(apiResponse.Hourly.Time, j)
       THEN /\ pc' = "build"
            /\ UNCHANGED <<j, hourlyIndex, hourlyForecasts, reads, ret>>
       ELSE LET hourlyTime == ParseInLocation(HourLayout, At(apiResponse.Hourly.Time, j))
            IN IF hourlyTime.err
               THEN /\ j' = j + 1                       \* continue
                    /\ reads' = reads \cup {"Hourly.Time"}
                    /\ UNCHANGED <<pc, hourlyIndex, hourlyForecasts, ret>>
               ELSE IF SameDay(hourlyTime.t, dayTime)
               THEN /\ hourlyIndex' = CursorAfter(j)
                    /\ reads' = reads \cup {"Hourly.Time", "Hourly"}
                    /\ IF ReadsInRange(apiResponse.Hourly.Series, HourlyReads, j)
                       THEN /\ hourlyForecasts' =
                                Append(hourlyForecasts,
                                       MkHourlyForecast(apiResponse.Hourly.Series,
                                                        hourlyTime.t, j))
                            /\ j' = j + 1
                            /\ UNCHANGED <<pc, ret>>
                       ELSE /\ pc' = "done"
                            /\ ret' = Panic
                            /\ UNCHANGED <<j, hourlyForecasts>>
               ELSE /\ pc' = "build"                    \* break
                    /\ reads' = reads \cup {"Hourly.Time"}
                    /\ UNCHANGED <<j, hourlyIndex, hourlyForecasts, ret>>
    /\ UNCHANGED <<component, tzVars, wsVars, providerCalls, pureVars, zoneVars, locVars, calls, previous, forecastPoint, primaryModel, apiResponse, currentTime,
                   scanI, nowIndex, currentConditions, dayI, dayTime, dailyForecasts>>

\* hourlySliceStart, hourlySliceEnd; dailyForecast := DailyForecast{...};
\* totalLiquidPrecipitation; dailyForecasts = append(dailyForecasts, dailyForecast)
DayBuild ==
    /\ component = "weather" /\ pc = "build"
    /\ reads' = reads \cup {"Daily"}
    /\ IF /\ ReadsInRange(apiResponse.Daily.Series, DailyReads, dayI)
          /\ SlicesInRange(apiResponse.Hourly.Series, SliceReads,
                           hourlySliceStart, hourlySliceEnd)
       THEN /\ dailyForecasts' =
                Append(dailyForecasts,
                       MkDailyForecast(apiResponse.Hourly.Series, apiResponse.Daily.Series,
                                       dayI, dayTime, hourlyForecasts,
                                       hourlySliceStart, hourlySliceEnd))
            /\ dayI' = dayI + 1
            /\ pc' = "days"
            /\ ret' = ret
       ELSE /\ pc' = "done"
            /\ ret' = Panic
            /\ UNCHANGED <<dayI, dailyForecasts>>
    /\ UNCHANGED <<component, tzVars, wsVars, providerCalls, pureVars, zoneVars, locVars, calls, previous, forecastPoint, primaryModel, apiResponse, currentTime,
                   scanI, nowIndex, currentConditions, dayTime, hourlyIndex, j,
                   hourlyForecasts>>

NextMap == LoadLocation \/ ScanNow \/ BuildCurrent \/ DayHead \/ HourStep \/ DayBuild

SpecMap == InitMap /\ [][NextMap]_vars

\* The caller maps the same response once more, with the same forecast point
\* and primary model, when the clock reads the same or a later hour.
SecondInvocation ==
    /\ component = "weather" /\ pc = "done" /\ calls = 1
    /\ calls' = calls + 1
    /\ previous' = [ret |-> ret, apiResponse |-> apiResponse]
    /\ \E t \in NowValues : t >= currentTime /\ currentTime' = t
    /\ pc' = "start"
    /\ scanI' = 0
    /\ nowIndex' = 0
    /\ currentConditions' = NoConditions
    /\ dayI' = 0
    /\ dayTime' = 0
    /\ hourlyIndex' = 0
    /\ j' = 0
    /\ hourlyForecasts' = <<>>
    /\ dailyForecasts' = <<>>
    /\ reads' = {}
    /\ ret' = NoReturn
    /\ UNCHANGED <<component, tzVars, wsVars, providerCalls, pureVars, zoneVars, locVars, forecastPoint, primaryModel, apiResponse>>

\* responses mapped twice: every position of "now", on ascending series
InitMapTwice ==
    /\ InitMap
    /\ apiResponse.Timezone \in KnownZones
    /\ apiResponse.Daily.Time = DayRun(0, 2)

NextMapTwice == NextMap \/ SecondInvocation

SpecMapTwice == InitMapTwice /\ [][NextMapTwice]_vars

\* ------------------------------------------------------------------------
\* Properties of mapForecastAPIResponseToForecast
\* ------------------------------------------------------------------------
HourlyTime == apiResponse.Hourly.Time
DailyTime == apiResponse.Daily.Time
Parseable(k) == HourlyTime[k + 1].layout = HourLayout
TimeAt(k) == HourlyTime[k + 1].v
HourIndexes == 0..(Len(HourlyTime) - 1)
ZoneResolves == apiResponse.Timezone \in KnownZones
Returned == pc = "done"
ReturnedForecast == pc = "done" /\ ret.kind = "ok"

\* the hourly series is parseable throughout and strictly ascending
AscendingHourly ==
    /\ \A k \in HourIndexes : Parseable(k)
    /\ \A k1, k2 \in HourIndexes : k1 < k2 => TimeAt(k1) < TimeAt(k2)
\* the daily series is parseable throughout and strictly ascending
AscendingDaily ==
    /\ \A k \in 1..Len(DailyTime) : DailyTime[k].layout = DateLayout
    /\ \A k1, k2 \in 1..Len(DailyTime) : k1 < k2 => DailyTime[k1].v < DailyTime[k2].v

\* the hourly indices whose calendar date is the date of the instant `day`
DayIndexes(day) ==
    {k \in HourIndexes : Parseable(k) /\ TimeAt(k) \div HoursPerDay = day \div HoursPerDay}

\* the indices of a set in ascending order
RECURSIVE Ascending(_)
Ascending(S) ==
    IF S = {} THEN <<>>
    ELSE LET lo == SetMin(S) IN <<lo>> \o Ascending(S \ {lo})

StartsOf(daily) == [k \in 1..Len(daily.HourlyForecasts) |-> daily.HourlyForecasts[k].Start]
ExpectedStarts(daily) ==
    LET idx == Ascending(DayIndexes(daily.Timestamp))
    IN [k \in 1..Len(idx) |-> TimeAt(idx[k])]

\* C1: for an ascending hourly series and an ascending daily series, every
\* DailyForecast of the returned Forecast, the first and every later one,
\* holds exactly the hourly entries whose calendar date is that day's date.
C1_EveryDayGetsItsHours ==
    (ReturnedForecast /\ AscendingHourly /\ AscendingDaily) =>
        \A d \in 1..Len(ret.forecast.DailyForecasts) :
            StartsOf(ret.forecast.DailyForecasts[d])
                = ExpectedStarts(ret.forecast.DailyForecasts[d])

\* the values one model publishes for one variable over a day's hourly indices
DayValues(v, m, daily) ==
    {At(apiResponse.Hourly.Series[v][m], k) : k \in DayIndexes(daily.Timestamp)}
RECURSIVE SetSum(_, _, _)
SetSum(v, m, S) ==
    IF S = {} THEN 0
    ELSE LET k == SetMin(S)
         IN At(apiResponse.Hourly.Series[v][m], k) + SetSum(v, m, S \ {k})
DaySum(v, m, daily) == SetSum(v, m, DayIndexes(daily.Timestamp))

\* C2: for every DailyForecast with at least one hourly entry and every model
\* of each aggregate map, the high/max aggregates are the maximum, the low/min
\* aggregates the minimum and the totals the sum of that model's hourly
\* values over the day's hourly indices.
C2_AggregatesCoverTheDay ==
    (ReturnedForecast /\ AscendingHourly /\ AscendingDaily) =>
        \A d \in 1..Len(ret.forecast.DailyForecasts) :
            LET daily == ret.forecast.DailyForecasts[d]
            IN Len(daily.HourlyForecasts) >= 1 =>
                /\ \A m \in DOMAIN daily.HighTemperature :
                    /\ daily.HighTemperature[m].Fahrenheit
                           = SetMax(DayValues("Temperature2M", m, daily))
                    /\ daily.LowTemperature[m].Fahrenheit
                           = SetMin(DayValues("Temperature2M", m, daily))
                    /\ daily.MaxWindSpeed[m].Mph = SetMax(DayValues("WindSpeed10M", m, daily))
                    /\ daily.MinWindSpeed[m].Mph = SetMin(DayValues("WindSpeed10M", m, daily))
                    /\ daily.TotalRainfall[m].Inches = DaySum("Rain", m, daily)
                    /\ daily.TotalShowers[m].Inches = DaySum("Showers", m, daily)
                    /\ daily.TotalSnowfall[m].Inches = DaySum("Snowfall", m, daily)
                    /\ daily.TotalPrecipitation[m].Inches = DaySum("Precipitation", m, daily)
                /\ \A m \in DOMAIN daily.MaxWindGusts :
                    /\ daily.MaxWindGusts[m].Mph = SetMax(DayValues("WindGusts10M", m, daily))
                    /\ daily.MinWindGusts[m].Mph = SetMin(DayValues("WindGusts10M", m, daily))
                /\ \A m \in DOMAIN daily.HighestFreezingLevelHeightFt :
                    /\ daily.HighestFreezingLevelHeightFt[m]
                           = SetMax(DayValues("FreezingLevelHeight", m, daily))
                    /\ daily.LowestFreezingLevelHeightFt[m]
                           = SetMin(DayValues("FreezingLevelHeight", m, daily))

\* the first parseable timestamp strictly after "now", or the end of the series
ScanStop ==
    LET later == {k \in HourIndexes : Parseable(k) /\ TimeAt(k) > currentTime}
    IN IF later = {} THEN Len(HourlyTime) ELSE SetMin(later)
\* the parseable timestamps scanned before it
Qualifying == {k \in HourIndexes : k < ScanStop /\ Parseable(k)}
NotLater == {k \in HourIndexes : Parseable(k) /\ TimeAt(k) <= currentTime}
ScanFinished == pc \notin {"start", "scanNow"} /\ ZoneResolves

\* C3: once the scan has finished, nowIndex is the last parseable timestamp
\* scanned before the first parseable timestamp strictly after "now" (none of
\* which is after "now"), 0 when there is none; unparseable timestamps are
\* skipped; for an ascending series it is the largest i with time[i] <= now.
C3_NowIndex ==
    ScanFinished =>
        /\ nowIndex = (IF Qualifying = {} THEN 0 ELSE SetMax(Qualifying))
        /\ \A k \in Qualifying : TimeAt(k) <= currentTime
        /\ nowIndex # 0 => Parseable(nowIndex)
        /\ (AscendingHourly /\ NotLater # {}) => nowIndex = SetMax(NotLater)

\* C3 witness: the scan skipped an unparseable timestamp, stopped at a later
\* timestamp and left a current index past the skipped one.
C3_Witness ==
    /\ pc = "current"
    /\ nowIndex > 1
    /\ \E k \in HourIndexes : k < nowIndex /\ ~Parseable(k)
    /\ ScanStop < Len(HourlyTime)

\* an array the assembly reads is missing or shorter than its time series, or
\* the hourly time series is empty
SomeArrayShort ==
    \/ Len(HourlyTime) = 0
    \/ \E v \in DOMAIN HourlyReads : \E m \in HourlyReads[v] :
          Len(apiResponse.Hourly.Series[v][m]) < Len(HourlyTime)
    \/ \E v \in DOMAIN DailyReads : \E m \in DailyReads[v] :
          Len(apiResponse.Daily.Series[v][m]) < Len(DailyTime)

\* C4: when an array the assembly reads is missing or short, the call
\* returns an explicit error and no Forecast; it does not panic and does not
\* return a Forecast built on defaults.
C4_ShortArrayIsAnError ==
    (Returned /\ ZoneResolves /\ SomeArrayShort) =>
        (ret.kind = "error" /\ ret.forecast = NilForecast)

\* C5: when the timezone name does not resolve, the call returns an error and
\* a nil Forecast without having read an element of any array.
C5_InvalidTimezoneFailsCleanly ==
    ~ZoneResolves =>
        /\ reads = {}
        /\ pc \in {"start", "done"}
        /\ Returned => (ret.kind = "error" /\ ret.forecast = NilForecast
                        /\ ret.err = "failed to load timezone location")

\* C5 witness: the call has returned the timezone error on a response whose
\* per-model arrays are all empty.
C5_Witness ==
    /\ Returned
    /\ ~ZoneResolves
    /\ ret.kind = "error"
    /\ \A v \in DOMAIN HourlyReads : \A m \in HourlyReads[v] :
          Len(apiResponse.Hourly.Series[v][m]) = 0

\* ------------------------------------------------------------------------
\* nac: MapLayerGeometry.UnmarshalJSON, FindZone, pointInPolygon
\* A position is the pair <<longitude, latitude>> ([2]float64), a ring a
\* sequence of positions, a Polygon's coordinates a sequence of rings and a
\* MultiPolygon's coordinates a sequence of such polygons.
\* ------------------------------------------------------------------------
\* the MultiPolygon loop: for _, poly := range multi { g.polygon = append(g.polygon, poly...) }
RECURSIVE FlattenLoop(_, _, _)
FlattenLoop(multi, k, polygon) ==
    IF k > Len(multi) THEN polygon
    ELSE FlattenLoop(multi, k + 1, polygon \o multi[k])

FirstPolygonOnly(multi) == IF Len(multi) = 0 THEN <<>> ELSE multi[1]
Flatten(multi) == FlattenLoop(multi, 1, <<>>)

\* MapLayerGeometry.UnmarshalJSON on a geometry with well-formed coordinates
UnmarshalJSON(raw) ==
    IF raw.Type = "Polygon"
    THEN [err |-> FALSE, Type |-> raw.Type, polygon |-> raw.Coordinates]
    ELSE IF raw.Type = "MultiPolygon"
    THEN [err |-> FALSE, Type |-> raw.Type, polygon |-> Flatten(raw.Coordinates)]
    ELSE [err |-> TRUE, Type |-> raw.Type, polygon |-> <<>>]

\* json decoding of the FeatureCollection: the first geometry that fails to
\* decode fails the whole response
DecodeLayer(raw) ==
    LET geoms == [k \in 1..Len(raw) |-> UnmarshalJSON(raw[k].Geometry)]
    IN IF \E k \in 1..Len(raw) : geoms[k].err
       THEN [err |-> TRUE, Features |-> <<>>]
       ELSE [err |-> FALSE,
             Features |-> [k \in 1..Len(raw) |->
                              [Id |-> raw[k].Id, Properties |-> raw[k].Properties,
                               Geometry |-> geoms[k]]]]

\* MapLayerGeometry.Coordinates
Coordinates(g) == g.polygon

\* lon < (xj-xi)*(lat-yi)/(yj-yi)+xi, with yj # yi
LonLeftOfEdge(lo, la, xi, yi, xj, yj) ==
    LET num == (xj - xi) * (la - yi)
        den == yj - yi
    IN IF den > 0 THEN (lo - xi) * den < num ELSE (lo - xi) * den > num

\* the start value of j in: for i, j := 0, n-1; i < n; j, i = i, i+1
NoClosingEdge(n) == 0
LastIndex(n) == n - 1

RECURSIVE PipLoop(_, _, _, _, _, _)
PipLoop(la, lo, polygon, i, jj, in) ==
    IF i >= Len(polygon) THEN in
    ELSE LET yi == At(At(polygon, i), 1)
             xi == At(At(polygon, i), 0)
             yj == At(At(polygon, jj), 1)
             xj == At(At(polygon, jj), 0)
             toggle == /\ (yi > la) # (yj > la)
                       /\ LonLeftOfEdge(lo, la, xi, yi, xj, yj)
         IN PipLoop(la, lo, polygon, i + 1, i, IF toggle THEN ~in ELSE in)

pointInPolygon(la, lo, polygon) ==
    PipLoop(la, lo, polygon, 0, LastIndex(Len(polygon)), FALSE)

\* a && b evaluates b only when a is true
Eager(first) == TRUE
ShortCircuit(first) == first

\* what each iteration of the loop of pointInPolygon does, in order: the
\* indices it reads the ring at, whether the ends of the edge are on
\* different sides of the latitude, whether the division by yj - yi is
\* evaluated, its divisor, and whether the iteration toggles inside
RECURSIVE PipEdges(_, _, _, _, _)
PipEdges(la, lo, polygon, i, jj) ==
    IF i >= Len(polygon) THEN <<>>
    ELSE LET yi == At(At(polygon, i), 1)
             xi == At(At(polygon, i), 0)
             yj == At(At(polygon, jj), 1)
             xj == At(At(polygon, jj), 0)
             straddles == (yi > la) # (yj > la)
         IN <<[i |-> i, j |-> jj, yi |-> yi, yj |-> yj,
               straddles |-> straddles,
               divided |-> ShortCircuit(straddles),
               divisor |-> yj - yi,
               toggled |-> straddles /\ LonLeftOfEdge(lo, la, xi, yi, xj, yj)]>>
            \o PipEdges(la, lo, polygon, i + 1, i)

\* ---- inputs
Pos(x, y) == <<x, y>>
Square == <<Pos(0, 0), Pos(0, 10), Pos(10, 10), Pos(10, 0)>>
SquareTurned == <<Pos(10, 10), Pos(10, 0), Pos(0, 0), Pos(0, 10)>>
SquareReversed == <<Pos(10, 0), Pos(10, 10), Pos(0, 10), Pos(0, 0)>>
Hole == <<Pos(3, 3), Pos(3, 7), Pos(7, 7), Pos(7, 3)>>
FarSquare == <<Pos(12, 12), Pos(12, 16), Pos(16, 16), Pos(16, 12)>>
Triangle == <<Pos(0, 0), Pos(10, 3), Pos(4, 10)>>
Diamond == <<Pos(8, 2), Pos(14, 8), Pos(8, 14), Pos(2, 8)>>
LShape == <<Pos(0, 0), Pos(10, 0), Pos(10, 4), Pos(4, 4), Pos(4, 10), Pos(0, 10)>>
EmptyRing == <<>>

\* the properties of the zones of the layer: zone 1 is a zone of one
\* avalanche center, every other zone a zone of another
PropertiesOf(id) ==
    IF id = 1 THEN [Name |-> "Stevens Pass", CenterId |-> "NWAC", Link |-> "https://nwac/1"]
    ELSE [Name |-> "Front Range", CenterId |-> "CAIC", Link |-> ""]

PolygonFeature(id, rings) ==
    [Id |-> id, Properties |-> PropertiesOf(id),
     Geometry |-> [Type |-> "Polygon", Coordinates |-> rings]]
MultiPolygonFeature(id, polys) ==
    [Id |-> id, Properties |-> PropertiesOf(id),
     Geometry |-> [Type |-> "MultiPolygon", Coordinates |-> polys]]
OtherFeature(id) ==
    [Id |-> id, Properties |-> PropertiesOf(id),
     Geometry |-> [Type |-> "Point", Coordinates |-> <<>>]]

Layers ==
    {<<>>,
     <<PolygonFeature(1, <<Square>>)>>,
     <<PolygonFeature(1, <<SquareTurned>>), PolygonFeature(2, <<SquareReversed>>)>>,
     <<PolygonFeature(1, <<Triangle>>), PolygonFeature(2, <<Square>>),
       PolygonFeature(3, <<Diamond>>)>>,
     <<PolygonFeature(1, <<Diamond>>), PolygonFeature(2, <<LShape>>),
       PolygonFeature(3, <<Triangle>>)>>,
     <<PolygonFeature(1, <<EmptyRing>>), PolygonFeature(2, <<>>),
       PolygonFeature(3, <<LShape>>)>>,
     <<PolygonFeature(1, <<Square, Hole>>), PolygonFeature(2, <<FarSquare>>)>>,
     <<MultiPolygonFeature(1, << <<FarSquare>>, <<Square, Hole>> >>),
       PolygonFeature(2, <<Diamond>>)>>,
     <<MultiPolygonFeature(1, << <<Triangle>>, <<>>, <<FarSquare>> >>),
       MultiPolygonFeature(2, << <<Diamond, Hole>> >>)>>,
     <<PolygonFeature(1, <<Square>>), OtherFeature(2)>>}

GridPoints == (0 - 1)..GridMax

InitZone ==
    /\ component = "zone"
    /\ IdleServices
    /\ IdlePure
    /\ IdleMap
    /\ IdleLoc
    /\ rawLayer \in Layers
    /\ lat \in GridPoints
    /\ lon \in GridPoints
    /\ mapLayer = [err |-> FALSE, Features |-> <<>>]
    /\ fi = 0
    /\ ri = 0
    /\ tested = <<>>
    /\ inside = FALSE
    /\ zone = [nil |-> TRUE]
    /\ forecastProvider = "ok"
    /\ avRet = NoAvalancheReturn
    /\ pc = "decode"

\* a call made on a provider
ProviderCall(provider, method, args) == [provider |-> provider, method |-> method, args |-> args]

\* GetMapLayer: json.NewDecoder(...).Decode(&result)
DecodeMapLayer ==
    /\ component = "zone" /\ pc = "decode"
    /\ providerCalls' = Append(providerCalls, ProviderCall("mapLayerProvider", "GetMapLayer", <<>>))
    /\ mapLayer' = DecodeLayer(rawLayer)
    /\ pc' = IF mapLayer'.err THEN "done" ELSE "find"
    /\ UNCHANGED <<component, tzVars, wsVars, pureVars, mapVars, locVars, forecastProvider, avRet, rawLayer, lat, lon, fi, ri, tested, inside, zone>>

\* where FindZone goes once a ring contains the point: return &mapLayer.Features[i]
KeepScanning == "find"
PcAfterHit == "done"

\* one step of the two loops of FindZone: the end of the features (return
\* nil), the end of a feature's rings, or one call of pointInPolygon
FindZoneStep ==
    /\ component = "zone" /\ pc = "find"
    /\ IF ~InRange(mapLayer.Features, fi)
       THEN /\ zone' = [nil |-> TRUE]
            /\ pc' = "done"
            /\ UNCHANGED <<fi, ri, tested, inside>>
       ELSE LET rings == Coordinates(At(mapLayer.Features, fi).Geometry)
            IN IF ~InRange(rings, ri)
               THEN /\ fi' = fi + 1
                    /\ ri' = 0
                    /\ UNCHANGED <<pc, tested, inside, zone>>
               ELSE /\ tested' = <<At(rings, ri)>>
                    /\ inside' = pointInPolygon(lat, lon, At(rings, ri))
                    /\ IF inside'
                       THEN /\ zone' = [nil |-> FALSE, index |-> fi,
                                        feature |-> At(mapLayer.Features, fi)]
                            /\ pc' = PcAfterHit
                            /\ ri' = ri + 1
                            /\ fi' = fi
                       ELSE /\ ri' = ri + 1
                            /\ UNCHANGED <<pc, fi, zone>>
    /\ UNCHANGED <<component, tzVars, wsVars, providerCalls, pureVars, mapVars, locVars, forecastProvider, avRet, rawLayer, mapLayer, lat, lon>>

NextZone == DecodeMapLayer \/ FindZoneStep

SpecZone == InitZone /\ [][NextZone]_vars

\* ------------------------------------------------------------------------
\* Properties of FindZone and pointInPolygon
\* ------------------------------------------------------------------------
Cross(a, b, px, py) == (b[1] - a[1]) * (py - a[2]) - (b[2] - a[2]) * (px - a[1])
EdgesOf(ring) ==
    {<<ring[k], ring[(k % Len(ring)) + 1]>> : k \in 1..Len(ring)}
Between(u, v, w) == (u <= w /\ w <= v) \/ (v <= w /\ w <= u)
\* the point lies on an edge of the ring
OnBoundary(ring, px, py) ==
    \E e \in EdgesOf(ring) :
        /\ Cross(e[1], e[2], px, py) = 0
        /\ Between(e[1][1], e[2][1], px)
        /\ Between(e[1][2], e[2][2], py)
\* strictly inside a convex ring: strictly on the same side of every edge
InsideConvex(ring, px, py) ==
    /\ Len(ring) >= 3
    /\ \/ \A e \in EdgesOf(ring) : Cross(e[1], e[2], px, py) > 0
       \/ \A e \in EdgesOf(ring) : Cross(e[1], e[2], px, py) < 0
\* strictly inside LShape: the union of its two open rectangles
InsideLShape(px, py) ==
    \/ (0 < px /\ px < 10 /\ 0 < py /\ py < 4)
    \/ (0 < px /\ px < 4 /\ 0 < py /\ py < 10)
\* the interior of each ring of Layers, stated geometrically
GeometricInside(ring, px, py) ==
    IF ring = LShape THEN InsideLShape(px, py) ELSE InsideConvex(ring, px, py)

ZoneDecoded == component = "zone" /\ pc \in {"find", "done"} /\ ~mapLayer.err
ZoneReturned == component = "zone" /\ pc = "done" /\ ~mapLayer.err
FeatureIndexes == 0..(Len(mapLayer.Features) - 1)
RingsAt(i) == Coordinates(At(mapLayer.Features, i).Geometry)
Containing ==
    {i \in FeatureIndexes :
        \E r \in 1..Len(RingsAt(i)) : pointInPolygon(lat, lon, RingsAt(i)[r])}

\* C6: FindZone returns the first feature, in collection order, that has a
\* ring containing the point, nil when there is none, and leaves the
\* collection as it was decoded.
C6_FirstContainingFeature ==
    ZoneReturned =>
        /\ IF Containing = {} THEN zone.nil
           ELSE /\ ~zone.nil
                /\ zone.index = SetMin(Containing)
                /\ zone.feature = At(mapLayer.Features, SetMin(Containing))
        /\ mapLayer = DecodeLayer(rawLayer)

\* C6 witness: the first feature does not contain the point, two later ones
\* do, and the earlier of the two was returned.
C6_Witness ==
    /\ ZoneReturned
    /\ Cardinality(Containing) >= 2
    /\ SetMin(Containing) > 0
    /\ ~zone.nil
    /\ zone.index = SetMin(Containing)

RingTested == component = "zone" /\ tested # <<>>

\* C7: for a point off the ring's boundary pointInPolygon returns true iff
\* the point is inside the ring; (5,5) is inside the square
\* [(0,0),(0,10),(10,10),(10,0)] and (15,15) is not.
C7_PointInPolygonIsInside ==
    RingTested =>
        /\ ~OnBoundary(tested[1], lon, lat) =>
               (inside <=> GeometricInside(tested[1], lon, lat))
        /\ (tested[1] = Square /\ lat = 5 /\ lon = 5) => inside
        /\ (tested[1] = Square /\ lat = 15 /\ lon = 15) => ~inside

\* C7 witness: pointInPolygon has answered true for (5,5) in the square.
C7_Witness ==
    /\ RingTested
    /\ tested[1] = Square
    /\ lat = 5 /\ lon = 5
    /\ inside

\* the rings of a feature as the provider sent them
RawRings(f) ==
    IF f.Geometry.Type = "Polygon"
    THEN {f.Geometry.Coordinates[k] : k \in 1..Len(f.Geometry.Coordinates)}
    ELSE UNION {{f.Geometry.Coordinates[q][k] : k \in 1..Len(f.Geometry.Coordinates[q])} :
                   q \in 1..Len(f.Geometry.Coordinates)}
RawMatches(i) == \E r \in RawRings(At(rawLayer, i)) : pointInPolygon(lat, lon, r)
RECURSIVE InOrder(_)
InOrder(polys) == IF polys = <<>> THEN <<>> ELSE Head(polys) \o InOrder(Tail(polys))
\* the point is strictly inside some ring of the feature, hole rings included
StrictlyInsideSomeRing(i) ==
    \E r \in RawRings(At(rawLayer, i)) :
        GeometricInside(r, lon, lat) /\ ~OnBoundary(r, lon, lat)

\* C8: the ring list of a decoded feature is its rings as given (Polygon) or
\* the in-order concatenation of the rings of all its polygons (MultiPolygon);
\* a feature matches iff at least one of these rings contains the point, outer
\* and hole rings alike, so a point inside a hole is reported as contained.
C8_AnyRingOfTheFlattenedList ==
    ZoneDecoded =>
        /\ \A i \in FeatureIndexes :
              RingsAt(i) = (IF At(rawLayer, i).Geometry.Type = "Polygon"
                            THEN At(rawLayer, i).Geometry.Coordinates
                            ELSE InOrder(At(rawLayer, i).Geometry.Coordinates))
        /\ pc = "done" =>
              /\ zone.nil => \A i \in FeatureIndexes : ~RawMatches(i)
              /\ ~zone.nil =>
                    /\ RawMatches(zone.index)
                    /\ \A i \in FeatureIndexes : i < zone.index => ~RawMatches(i)
              /\ \A i \in FeatureIndexes :
                    StrictlyInsideSomeRing(i) => (~zone.nil /\ zone.index <= i)

\* C8 witness: the point lies strictly inside the hole ring of the second
\* polygon of a MultiPolygon feature, and FindZone returned that feature.
C8_Witness ==
    /\ ZoneReturned
    /\ ~zone.nil
    /\ zone.index = 0
    /\ At(rawLayer, 0).Geometry.Type = "MultiPolygon"
    /\ Hole \in RawRings(At(rawLayer, 0))
    /\ InsideConvex(Hole, lon, lat)
    /\ ~InsideConvex(FarSquare, lon, lat)

\* ------------------------------------------------------------------------
\* location: locationService.GetForecastPoint
\* An error is the sequence of the parts of its message, outermost first;
\* fmt.Errorf("prefix: %w", err) puts the prefix in front.
\* ------------------------------------------------------------------------
Wrap(prefix, err) == <<prefix>> \o err
MultipleErrors(e1, e2) == <<"multiple errors", "elevation", e1, "location", e2>>

NewElevationFromFeet(feet) == [Feet |-> feet, MetersE4 |-> feet * 3048]
NewCoords(la, lo) == [Latitude |-> la, Longitude |-> lo]

\* translateElevation
translateElevation(resp) ==
    IF resp = NilResp
    THEN [value |-> NewElevationFromFeet(0), err |-> <<"elevation response is nil">>]
    ELSE [value |-> NewElevationFromFeet(resp.Value), err |-> NilErr]

\* translateLocationInfo
translateLocationInfo(resp) ==
    IF resp = NilResp
    THEN [value |-> [Name |-> "", State |-> ""], err |-> <<"lookup response is nil">>]
    ELSE [value |-> [Name |-> IF resp.Name # "" THEN resp.Name ELSE resp.DisplayName,
                     State |-> resp.State],
          err |-> NilErr]

\* the error checks after wg.Wait(): the error GetForecastPoint returns
\* because a provider call failed, nil when neither failed
FirstErrorOnly(eErr, lErr) == IF eErr # NilErr THEN eErr ELSE lErr
CheckErrors(eErr, lErr) ==
    IF eErr # NilErr /\ lErr # NilErr THEN MultipleErrors(eErr, lErr)
    ELSE IF eErr # NilErr THEN eErr
    ELSE IF lErr # NilErr THEN lErr
    ELSE NilErr

\* everything GetForecastPoint does after wg.Wait()
Assemble(eResp, eErr, lResp, lErr, la, lo) ==
    LET failed == CheckErrors(eErr, lErr)
        elevation == translateElevation(eResp)
        locationInfo == translateLocationInfo(lResp)
        fail(e) == [kind |-> "returned", point |-> [isNil |-> TRUE], err |-> e]
    IN IF failed # NilErr THEN fail(failed)
       ELSE IF elevation.err # NilErr THEN fail(elevation.err)
       ELSE IF locationInfo.err # NilErr THEN fail(locationInfo.err)
       ELSE [kind |-> "returned",
             point |-> [isNil |-> FALSE, Coordinates |-> NewCoords(la, lo),
                        Elevation |-> elevation.value, Location |-> locationInfo.value],
             err |-> NilErr]

\* wg.Wait() returns once the counter is zero
NoWait(counter) == TRUE
WaitReady(counter) == counter = 0

\* the two constructors: only NewLocationService stores a logger
NewLocationService == [logger |-> "set"]
NewLocationServiceWithProviders == [logger |-> "nil"]

ElevationResponses == {NilResp, [isNil |-> FALSE, Value |-> 9000]}
LocationResponses ==
    {NilResp,
     [isNil |-> FALSE, Name |-> "Aspen", DisplayName |-> "Aspen, Pitkin County", State |-> "Colorado"],
     [isNil |-> FALSE, Name |-> "", DisplayName |-> "Test Location", State |-> ""]}
ElevationErrors == {NilErr, <<"elevation API error">>}
LocationErrors == {NilErr, <<"location API error">>}

InitLoc ==
    /\ component = "location"
    /\ IdleServices
    /\ IdlePure
    /\ IdleMap
    /\ IdleZone
    /\ logger \in {NewLocationService.logger, NewLocationServiceWithProviders.logger}
    /\ elevationProvider \in [resp : ElevationResponses, err : ElevationErrors]
    /\ locationProvider \in [resp : LocationResponses, err : LocationErrors]
    /\ latitude = 39
    /\ longitude = 0 - 107
    /\ wg = 0
    /\ elevationResp = NilResp
    /\ elevationErr = NilErr
    /\ locationResp = NilResp
    /\ locationErr = NilErr
    /\ pcElevation = "idle"
    /\ pcLocation = "idle"
    /\ order = <<>>
    /\ fpRet = NoPoint
    /\ pc = "debug"

\* s.logger.Debug("getting forecast point", ...): a nil *slog.Logger panics
LogEntry ==
    /\ component = "location" /\ pc = "debug"
    /\ IF logger = "nil"
       THEN /\ pc' = "done"
            /\ fpRet' = [kind |-> "panic", point |-> [isNil |-> TRUE], err |-> NilErr]
       ELSE /\ pc' = "add"
            /\ fpRet' = fpRet
    /\ UNCHANGED <<component, tzVars, wsVars, providerCalls, pureVars, mapVars, zoneVars, logger, elevationProvider,
                   locationProvider, latitude, longitude, wg, elevationResp,
                   elevationErr, locationResp, locationErr, pcElevation, pcLocation,
                   order>>

\* wg.Add(2)
WgAdd ==
    /\ component = "location" /\ pc = "add"
    /\ wg' = wg + 2
    /\ pc' = "goElevation"
    /\ UNCHANGED <<component, tzVars, wsVars, providerCalls, pureVars, mapVars, zoneVars, logger, elevationProvider,
                   locationProvider, latitude, longitude, elevationResp, elevationErr,
                   locationResp, locationErr, pcElevation, pcLocation, order, fpRet>>

\* go func() { ... elevation ... }()
GoElevation ==
    /\ component = "location" /\ pc = "goElevation"
    /\ pcElevation' = "call"
    /\ pc' = "goLocation"
    /\ UNCHANGED <<component, tzVars, wsVars, providerCalls, pureVars, mapVars, zoneVars, logger, elevationProvider,
                   locationProvider, latitude, longitude, wg, elevationResp,
                   elevationErr, locationResp, locationErr, pcLocation, order, fpRet>>

\* go func() { ... location ... }()
GoLocation ==
    /\ component = "location" /\ pc = "goLocation"
    /\ pcLocation' = "call"
    /\ pc' = "wait"
    /\ UNCHANGED <<component, tzVars, wsVars, providerCalls, pureVars, mapVars, zoneVars, logger, elevationProvider,
                   locationProvider, latitude, longitude, wg, elevationResp,
                   elevationErr, locationResp, locationErr, pcElevation, order, fpRet>>

\* elevationResp, elevationErr = s.elevationProvider.GetElevationPoint(...)
ElevationCall ==
    /\ component = "location" /\ pcElevation = "call"
    /\ elevationResp' = elevationProvider.resp
    /\ elevationErr' = elevationProvider.err
    /\ pcElevation' = "check"
    /\ UNCHANGED <<component, tzVars, wsVars, providerCalls, pureVars, pc, mapVars, zoneVars, logger, elevationProvider,
                   locationProvider, latitude, longitude, wg, locationResp,
                   locationErr, pcLocation, order, fpRet>>

\* if elevationErr != nil { elevationErr = fmt.Errorf("failed to get elevation: %w", ...) }
ElevationWrap ==
    /\ component = "location" /\ pcElevation = "check"
    /\ elevationErr' = IF elevationErr # NilErr
                       THEN Wrap("failed to get elevation", elevationErr)
                       ELSE elevationErr
    /\ pcElevation' = "defer"
    /\ UNCHANGED <<component, tzVars, wsVars, providerCalls, pureVars, pc, mapVars, zoneVars, logger, elevationProvider,
                   locationProvider, latitude, longitude, wg, elevationResp,
                   locationResp, locationErr, pcLocation, order, fpRet>>

\* defer wg.Done()
ElevationDone ==
    /\ component = "location" /\ pcElevation = "defer"
    /\ wg' = wg - 1
    /\ order' = Append(order, "elevation")
    /\ pcElevation' = "exited"
    /\ UNCHANGED <<component, tzVars, wsVars, providerCalls, pureVars, pc, mapVars, zoneVars, logger, elevationProvider,
                   locationProvider, latitude, longitude, elevationResp, elevationErr,
                   locationResp, locationErr, pcLocation, fpRet>>

\* locationResp, locationErr = s.locationProvider.Lookup(...)
LocationCall ==
    /\ component = "location" /\ pcLocation = "call"
    /\ locationResp' = locationProvider.resp
    /\ locationErr' = locationProvider.err
    /\ pcLocation' = "check"
    /\ UNCHANGED <<component, tzVars, wsVars, providerCalls, pureVars, pc, mapVars, zoneVars, logger, elevationProvider,
                   locationProvider, latitude, longitude, wg, elevationResp,
                   elevationErr, pcElevation, order, fpRet>>

\* if locationErr != nil { locationErr = fmt.Errorf("failed to get location: %w", ...) }
LocationWrap ==
    /\ component = "location" /\ pcLocation = "check"
    /\ locationErr' = IF locationErr # NilErr
                      THEN Wrap("failed to get location", locationErr)
                      ELSE locationErr
    /\ pcLocation' = "defer"
    /\ UNCHANGED <<component, tzVars, wsVars, providerCalls, pureVars, pc, mapVars, zoneVars, logger, elevationProvider,
                   locationProvider, latitude, longitude, wg, elevationResp,
                   elevationErr, locationResp, pcElevation, order, fpRet>>

\* defer wg.Done()
LocationDone ==
    /\ component = "location" /\ pcLocation = "defer"
    /\ wg' = wg - 1
    /\ order' = Append(order, "location")
    /\ pcLocation' = "exited"
    /\ UNCHANGED <<component, tzVars, wsVars, providerCalls, pureVars, pc, mapVars, zoneVars, logger, elevationProvider,
                   locationProvider, latitude, longitude, elevationResp, elevationErr,
                   locationResp, locationErr, pcElevation, fpRet>>

\* wg.Wait()
WgWait ==
    /\ component = "location" /\ pc = "wait"
    /\ WaitReady(wg)
    /\ pc' = "check"
    /\ UNCHANGED <<component, tzVars, wsVars, providerCalls, pureVars, mapVars, zoneVars, locVars>>

\* the error checks, the two translations and the return
CheckAndReturn ==
    /\ component = "location" /\ pc = "check"
    /\ fpRet' = Assemble(elevationResp, elevationErr, locationResp, locationErr,
                         latitude, longitude)
    /\ pc' = "done"
    /\ UNCHANGED <<component, tzVars, wsVars, providerCalls, pureVars, mapVars, zoneVars, logger, elevationProvider,
                   locationProvider, latitude, longitude, wg, elevationResp,
                   elevationErr, locationResp, locationErr, pcElevation, pcLocation,
                   order>>

NextLoc ==
    \/ LogEntry \/ WgAdd \/ GoElevation \/ GoLocation
    \/ ElevationCall \/ ElevationWrap \/ ElevationDone
    \/ LocationCall \/ LocationWrap \/ LocationDone
    \/ WgWait \/ CheckAndReturn

SpecLoc == InitLoc /\ [][NextLoc]_vars

\* ------------------------------------------------------------------------
\* minFloat, maxFloat and sum called on their own
\* ------------------------------------------------------------------------
FloatSlices == SeqsUpTo((0 - MaxAbs)..MaxAbs, MaxSliceLen)

InitAggregate ==
    /\ component = "aggregate"
    /\ IdleServices
    /\ IdleMap
    /\ IdleZone
    /\ IdleLoc
    /\ fn = "none"
    /\ arg \in FloatSlices
    /\ out = 0
    /\ pc = "call"

CallMinFloat ==
    /\ component = "aggregate" /\ pc = "call"
    /\ fn' = "minFloat"
    /\ out' = minFloat(arg)
    /\ pc' = "done"
    /\ UNCHANGED <<component, tzVars, wsVars, providerCalls, mapVars, zoneVars, locVars, arg>>

CallMaxFloat ==
    /\ component = "aggregate" /\ pc = "call"
    /\ fn' = "maxFloat"
    /\ out' = maxFloat(arg)
    /\ pc' = "done"
    /\ UNCHANGED <<component, tzVars, wsVars, providerCalls, mapVars, zoneVars, locVars, arg>>

CallSum ==
    /\ component = "aggregate" /\ pc = "call"
    /\ fn' = "sum"
    /\ out' = sum(arg)
    /\ pc' = "done"
    /\ UNCHANGED <<component, tzVars, wsVars, providerCalls, mapVars, zoneVars, locVars, arg>>

NextAggregate == CallMinFloat \/ CallMaxFloat \/ CallSum

SpecAggregate == InitAggregate /\ [][NextAggregate]_vars

\* ------------------------------------------------------------------------
\* avalanche: parseSize.  Sizes are kept in tenths.
\* ------------------------------------------------------------------------
\* strconv.ParseFloat(s, 64) on the strings of the model
ParseFloat(s) ==
    CASE s = "1" -> [err |-> FALSE, val |-> 10]
      [] s = "1.0" -> [err |-> FALSE, val |-> 10]
      [] s = "1.5" -> [err |-> FALSE, val |-> 15]
      [] s = "2" -> [err |-> FALSE, val |-> 20]
      [] s = "2.5" -> [err |-> FALSE, val |-> 25]
      [] OTHER -> [err |-> TRUE, val |-> 0]

\* the zero value AvalancheSize{}
ZeroSize == [Min |-> 0, Max |-> 0]

\* for i, s := range sizes { ... }, from index i (0-based) on
RECURSIVE ParseSizeLoop(_, _, _)
ParseSizeLoop(sizes, i, result) ==
    IF ~InRange(sizes, i) THEN result
    ELSE LET parsed == ParseFloat(At(sizes, i))
         IN IF parsed.err THEN ParseSizeLoop(sizes, i + 1, result)      \* continue
            ELSE IF i = 0
            THEN ParseSizeLoop(sizes, i + 1, [Min |-> parsed.val, Max |-> parsed.val])
            ELSE ParseSizeLoop(sizes, i + 1,
                               [Min |-> IF parsed.val < result.Min THEN parsed.val
                                        ELSE result.Min,
                                Max |-> IF parsed.val > result.Max THEN parsed.val
                                        ELSE result.Max])

parseSize(sizes) ==
    IF Len(sizes) = 0 THEN ZeroSize ELSE ParseSizeLoop(sizes, 0, ZeroSize)

SizeStrings == {"1", "1.0", "1.5", "2", "2.5", "abc", ""}
SizeLists == SeqsUpTo(SizeStrings, MaxSizes)

InitSize ==
    /\ component = "size"
    /\ IdleServices
    /\ IdleMap
    /\ IdleZone
    /\ IdleLoc
    /\ fn = "none"
    /\ arg \in SizeLists
    /\ out = 0
    /\ pc = "call"

CallParseSize ==
    /\ component = "size" /\ pc = "call"
    /\ fn' = "parseSize"
    /\ out' = parseSize(arg)
    /\ pc' = "done"
    /\ UNCHANGED <<component, tzVars, wsVars, providerCalls, mapVars, zoneVars, locVars, arg>>

NextSize == CallParseSize

SpecSize == InitSize /\ [][NextSize]_vars

\* ------------------------------------------------------------------------
\* avalanche: ParseLikelihood.  A string is the sequence of its characters.
\* ------------------------------------------------------------------------
UpperLetters ==
    <<"A", "B", "C", "D", "E", "F", "G", "H", "I", "J", "K", "L", "M", "N", "O", "P", "Q", "R", "S", "T", "U", "V", "W", "X", "Y", "Z">>
LowerLetters ==
    <<"a", "b", "c", "d", "e", "f", "g", "h", "i", "j", "k", "l", "m", "n", "o", "p", "q", "r", "s", "t", "u", "v", "w", "x", "y", "z">>
ToLowerChar(c) ==
    IF \E k \in 1..Len(UpperLetters) : UpperLetters[k] = c
    THEN LowerLetters[CHOOSE k \in 1..Len(UpperLetters) : UpperLetters[k] = c]
    ELSE c
ToUpperChar(c) ==
    IF \E k \in 1..Len(LowerLetters) : LowerLetters[k] = c
    THEN UpperLetters[CHOOSE k \in 1..Len(LowerLetters) : LowerLetters[k] = c]
    ELSE c

\* strings.ToLower
ToLower(s) == [k \in 1..Len(s) |-> ToLowerChar(s[k])]

\* strings.TrimSpace: drops the white space at both ends
WhiteSpace == {" ", "\t", "\n"}
RECURSIVE TrimLeft(_)
TrimLeft(s) == IF s # <<>> /\ Head(s) \in WhiteSpace THEN TrimLeft(Tail(s)) ELSE s
RECURSIVE TrimRight(_)
TrimRight(s) ==
    IF s # <<>> /\ s[Len(s)] \in WhiteSpace THEN TrimRight(SubSeq(s, 1, Len(s) - 1)) ELSE s
TrimSpace(s) == TrimRight(TrimLeft(s))

\* strings.ReplaceAll(s, old, "") for a one-character old
RECURSIVE RemoveLoop(_, _, _, _)
RemoveLoop(s, old, k, acc) ==
    IF k > Len(s) THEN acc
    ELSE RemoveLoop(s, old, k + 1, IF s[k] = old THEN acc ELSE Append(acc, s[k]))
ReplaceNothing(s, old) == s
ReplaceAll(s, old) == RemoveLoop(s, old, 1, <<>>)

LikelihoodUnlikely == 1
LikelihoodPossible == 2
LikelihoodLikely == 3
LikelihoodVeryLikely == 4
LikelihoodAlmostCertain == 5

ParseLikelihood(s) ==
    LET normalized == ReplaceAll(ReplaceAll(ToLower(TrimSpace(s)), " "), "_")
    IN CASE normalized = <<"u", "n", "l", "i", "k", "e", "l", "y">> -> LikelihoodUnlikely
         [] normalized = <<"p", "o", "s", "s", "i", "b", "l", "e">> -> LikelihoodPossible
         [] normalized = <<"l", "i", "k", "e", "l", "y">> -> LikelihoodLikely
         [] normalized = <<"v", "e", "r", "y", "l", "i", "k", "e", "l", "y">> -> LikelihoodVeryLikely
         [] normalized = <<"a", "l", "m", "o", "s", "t", "c", "e", "r", "t", "a", "i", "n">> -> LikelihoodAlmostCertain
         [] OTHER -> 0

\* ---- inputs: the five names, word by word, in several spellings
NameWords ==
    << <<<<"u", "n", "l", "i", "k", "e", "l", "y">>>>,
       <<<<"p", "o", "s", "s", "i", "b", "l", "e">>>>,
       <<<<"l", "i", "k", "e", "l", "y">>>>,
       <<<<"v", "e", "r", "y">>, <<"l", "i", "k", "e", "l", "y">>>>,
       <<<<"a", "l", "m", "o", "s", "t">>, <<"c", "e", "r", "t", "a", "i", "n">>>> >>
Capitalized(w) == [k \in 1..Len(w) |-> IF k = 1 THEN ToUpperChar(w[k]) ELSE w[k]]
Shouted(w) == [k \in 1..Len(w) |-> ToUpperChar(w[k])]
Cased(w, style, first) ==
    CASE style = "lower" -> w
      [] style = "Title" -> Capitalized(w)
      [] style = "UPPER" -> Shouted(w)
      [] style = "camel" -> IF first THEN w ELSE Capitalized(w)
RECURSIVE Joined(_, _, _, _)
Joined(words, k, sep, style) ==
    IF k > Len(words) THEN <<>>
    ELSE (IF k = 1 THEN <<>> ELSE sep) \o Cased(words[k], style, k = 1)
         \o Joined(words, k + 1, sep, style)
Separators == {<<>>, <<" ">>, <<"_">>, <<" ", " ">>}
Paddings == {<<>>, <<" ">>, <<"\t", " ">>}
Styles == {"lower", "Title", "UPPER", "camel"}
SpellingsOf(n) ==
    {before \o Joined(NameWords[n], 1, sep, style) \o after :
        sep \in Separators, style \in Styles, before \in Paddings, after \in Paddings}
Spellings == UNION {SpellingsOf(n) : n \in 1..Len(NameWords)}
OtherStrings ==
    {<<>>, <<" ">>, <<"_">>, <<"u", "n", "k", "n", "o", "w", "n">>, <<"l", "i", "k", "e", "l">>,
     <<"l", "i", "k", "e", "l", "y", "y">>, <<"v", "e", "r", "y", "\t", "l", "i", "k", "e", "l", "y">>,
     <<"v", "e", "r", "y", "-", "l", "i", "k", "e", "l", "y">>, <<"c", "e", "r", "t", "a", "i", "n">>}

InitLikelihood ==
    /\ component = "likelihood"
    /\ IdleServices
    /\ IdleMap
    /\ IdleZone
    /\ IdleLoc
    /\ fn = "none"
    /\ arg \in Spellings \cup OtherStrings
    /\ out = 0
    /\ pc = "call"

CallParseLikelihood ==
    /\ component = "likelihood" /\ pc = "call"
    /\ fn' = "ParseLikelihood"
    /\ out' = ParseLikelihood(arg)
    /\ pc' = "done"
    /\ UNCHANGED <<component, tzVars, wsVars, providerCalls, mapVars, zoneVars, locVars, arg>>

NextLikelihood == CallParseLikelihood

SpecLikelihood == InitLikelihood /\ [][NextLikelihood]_vars

\* ------------------------------------------------------------------------
\* types: NewWindDirection
\* ------------------------------------------------------------------------
directionMap ==
    <<"N", "NNE", "NE", "ENE", "E", "ESE", "SE", "SSE",
      "S", "SSW", "SW", "WSW", "W", "WNW", "NW", "NNW">>

\* directionMap[index]: a key that is not in the map gives ""
DirectionLookup(index) == IF InRange(directionMap, index) THEN At(directionMap, index) ELSE ""

\* int((degreesFloat / 22.5) + .5): degrees / 22.5 + .5 = (4 * degrees + 45) / 90,
\* which is never a whole number, so the float quotient truncates as the exact one
DirectionTruncated(degrees) == (4 * degrees) \div 90
DirectionOf(degrees) == (4 * degrees + 45) \div 90

\* int(direction) % 16
NoWrap(direction) == direction
WrapIndex(direction) == direction % Len(directionMap)

NewWindDirection(degrees) ==
    IF degrees < 0 \/ degrees >= FullCircle
    THEN [Degrees |-> -1, Cardinal |-> "Unknown"]
    ELSE [Degrees |-> degrees,
          Cardinal |-> DirectionLookup(WrapIndex(DirectionOf(degrees)))]

DegreeInputs == (0 - MaxOutside)..(FullCircle - 1 + MaxOutside)

InitWind ==
    /\ component = "wind"
    /\ IdleServices
    /\ IdleMap
    /\ IdleZone
    /\ IdleLoc
    /\ fn = "none"
    /\ arg \in DegreeInputs
    /\ out = 0
    /\ pc = "call"

CallNewWindDirection ==
    /\ component = "wind" /\ pc = "call"
    /\ fn' = "NewWindDirection"
    /\ out' = NewWindDirection(arg)
    /\ pc' = "done"
    /\ UNCHANGED <<component, tzVars, wsVars, providerCalls, mapVars, zoneVars, locVars, arg>>

NextWind == CallNewWindDirection

SpecWind == InitWind /\ [][NextWind]_vars

\* ------------------------------------------------------------------------
\* types: the unit constructors called on their own
\* ------------------------------------------------------------------------
NewSnowDepthFromFeet(amountInFeet) ==
    [Feet |-> amountInFeet, MetersE4 |-> amountInFeet * 3048]

ScalarInputs == (0 - MaxScalar)..(32 + MaxScalar)

InitUnits ==
    /\ component = "units"
    /\ IdleServices
    /\ IdleMap
    /\ IdleZone
    /\ IdleLoc
    /\ fn = "none"
    /\ arg \in ScalarInputs
    /\ out = 0
    /\ pc = "call"

CallNewTemperatureFromFahrenheit ==
    /\ component = "units" /\ pc = "call"
    /\ fn' = "NewTemperatureFromFahrenheit"
    /\ out' = NewTemperatureFromFahrenheit(arg)
    /\ pc' = "done"
    /\ UNCHANGED <<component, tzVars, wsVars, providerCalls, mapVars, zoneVars, locVars, arg>>

CallNewPrecipitationFromInches ==
    /\ component = "units" /\ pc = "call"
    /\ fn' = "NewPrecipitationFromInches"
    /\ out' = NewPrecipitationFromInches(arg)
    /\ pc' = "done"
    /\ UNCHANGED <<component, tzVars, wsVars, providerCalls, mapVars, zoneVars, locVars, arg>>

CallNewWindSpeedFromMph ==
    /\ component = "units" /\ pc = "call"
    /\ fn' = "NewWindSpeedFromMph"
    /\ out' = NewWindSpeedFromMph(arg)
    /\ pc' = "done"
    /\ UNCHANGED <<component, tzVars, wsVars, providerCalls, mapVars, zoneVars, locVars, arg>>

CallNewSnowDepthFromFeet ==
    /\ component = "units" /\ pc = "call"
    /\ fn' = "NewSnowDepthFromFeet"
    /\ out' = NewSnowDepthFromFeet(arg)
    /\ pc' = "done"
    /\ UNCHANGED <<component, tzVars, wsVars, providerCalls, mapVars, zoneVars, locVars, arg>>

CallNewElevationFromFeet ==
    /\ component = "units" /\ pc = "call"
    /\ fn' = "NewElevationFromFeet"
    /\ out' = NewElevationFromFeet(arg)
    /\ pc' = "done"
    /\ UNCHANGED <<component, tzVars, wsVars, providerCalls, mapVars, zoneVars, locVars, arg>>

NextUnits ==
    \/ CallNewTemperatureFromFahrenheit \/ CallNewPrecipitationFromInches
    \/ CallNewWindSpeedFromMph \/ CallNewSnowDepthFromFeet \/ CallNewElevationFromFeet

SpecUnits == InitUnits /\ [][NextUnits]_vars

\* ------------------------------------------------------------------------
\* avalanche: extractMediaURL on the raw JSON of media.url
\* A raw message is the JSON value its bytes spell: t is "empty" for no
\* bytes at all, otherwise the kind of the value; s is the text of a string
\* and members the name/value pairs of an object (a function on its keys).
\* ------------------------------------------------------------------------
SizeKeys == {"large", "medium", "original", "thumbnail"}

JsonScalar(t, str) == [t |-> t, s |-> str, members |-> <<>>]
JsonObject(members) == [t |-> "object", s |-> "", members |-> members]

\* json.Unmarshal(raw, &urlStruct): null leaves the struct alone; an object
\* fills the fields its keys name, a null member leaves its field alone, a
\* member of another kind than string is a type error, and keys that name no
\* field are skipped; any other value is a type error.
OriginalAlwaysEmpty(raw) ==
    [err |-> raw.t \notin {"null", "object"}, Original |-> ""]

UnmarshalStruct(raw) ==
    CASE raw.t = "null" -> [err |-> FALSE, Original |-> ""]
      [] raw.t = "object" ->
            [err |-> \E k \in DOMAIN raw.members \cap SizeKeys :
                          raw.members[k].t \notin {"string", "null"},
             Original |-> IF /\ "original" \in DOMAIN raw.members
                             /\ raw.members["original"].t = "string"
                          THEN raw.members["original"].s
                          ELSE ""]
      [] OTHER -> [err |-> TRUE, Original |-> ""]

\* json.Unmarshal(raw, &urlString): a string gives its text, null leaves
\* the empty string, anything else is a type error.
UnmarshalString(raw) ==
    CASE raw.t = "string" -> [err |-> FALSE, value |-> raw.s]
      [] raw.t = "null" -> [err |-> FALSE, value |-> ""]
      [] OTHER -> [err |-> TRUE, value |-> ""]

extractMediaURL(raw) ==
    IF raw.t = "empty" THEN ""
    ELSE LET urlStruct == UnmarshalStruct(raw)
             urlString == UnmarshalString(raw)
         IN  IF ~urlStruct.err /\ urlStruct.Original # "" THEN urlStruct.Original
             ELSE IF ~urlString.err THEN urlString.value
             ELSE ""

Urls == {"", "https://a/original.jpg", "https://a/large.jpg"}
MemberValues ==
    {JsonScalar("string", u) : u \in Urls} \cup {JsonScalar("null", ""), JsonScalar("number", "")}
MemberKeys == {"large", "original", "caption"}
RawMessages ==
    {JsonScalar(t, "") : t \in {"empty", "null", "number", "array"}}
        \cup {JsonScalar("string", u) : u \in Urls}
        \cup {JsonObject(m) : m \in UNION {[S -> MemberValues] : S \in SUBSET MemberKeys}}

InitMedia ==
    /\ component = "media"
    /\ IdleServices
    /\ IdleMap
    /\ IdleZone
    /\ IdleLoc
    /\ fn = "none"
    /\ arg \in RawMessages
    /\ out = 0
    /\ pc = "call"

CallExtractMediaURL ==
    /\ component = "media" /\ pc = "call"
    /\ fn' = "extractMediaURL"
    /\ out' = extractMediaURL(arg)
    /\ pc' = "done"
    /\ UNCHANGED <<component, tzVars, wsVars, providerCalls, mapVars, zoneVars, locVars, arg>>

NextMedia == CallExtractMediaURL

SpecMedia == InitMedia /\ [][NextMedia]_vars

\* ------------------------------------------------------------------------
\* avalanche: mapForecastResponse, mapDangerRatings, mapAvalancheProblems
\* ------------------------------------------------------------------------
\* for _, fz := range resp.ForecastZone { if fz.Id == zone.Id { ...; break } },
\* from index i (0-based) on: the zone of the forecast after the loop
RECURSIVE LastZoneMatch(_, _, _, _)
LastZoneMatch(zones, i, id, fzone) ==
    IF ~InRange(zones, i) THEN fzone
    ELSE IF At(zones, i).Id = id
    THEN LastZoneMatch(zones, i + 1, id,
                       [fzone EXCEPT !.State = At(zones, i).State,
                                     !.URL = IF At(zones, i).Url # "" THEN At(zones, i).Url
                                             ELSE fzone.URL])
    ELSE LastZoneMatch(zones, i + 1, id, fzone)

RECURSIVE ZoneStateLoop(_, _, _, _)
ZoneStateLoop(zones, i, id, fzone) ==
    IF ~InRange(zones, i) THEN fzone
    ELSE IF At(zones, i).Id = id
    THEN [fzone EXCEPT !.State = At(zones, i).State,
                       !.URL = IF At(zones, i).Url # "" THEN At(zones, i).Url
                               ELSE fzone.URL]                       \* break
    ELSE ZoneStateLoop(zones, i + 1, id, fzone)

mapDangerRatings(resp) ==
    [k \in 1..Len(resp.Danger) |->
        [ValidDay |-> resp.Danger[k].ValidDay,
         Lower |-> resp.Danger[k].Lower,
         Middle |-> resp.Danger[k].Middle,
         Upper |-> resp.Danger[k].Upper]]

mapAvalancheProblems(resp) ==
    [k \in 1..Len(resp.ForecastAvalancheProblems) |->
        LET p == resp.ForecastAvalancheProblems[k]
        IN [Name |-> p.Name,
            Rank |-> p.Rank,
            Likelihood |-> ParseLikelihood(p.Likelihood),
            Size |-> parseSize(p.Size),
            MediaURL |-> extractMediaURL(p.Media.Url)]]

mapForecastResponse(feature, resp) ==
    [isNil |-> FALSE,
     Zone |-> ZoneStateLoop(resp.ForecastZone, 0, feature.Id,
                            [Id |-> feature.Id, Name |-> feature.Properties.Name,
                             URL |-> feature.Properties.Link, State |-> ""]),
     Center |-> [Id |-> resp.AvalancheCenter.Id, Name |-> resp.AvalancheCenter.Name],
     ForecastURL |-> feature.Properties.Link,
     DangerRatings |-> mapDangerRatings(resp),
     Problems |-> mapAvalancheProblems(resp)]

\* the responses of the forecast provider
DangerEntries ==
    {[ValidDay |-> "current", Lower |-> 1, Middle |-> 2, Upper |-> 3],
     [ValidDay |-> "tomorrow", Lower |-> 2, Middle |-> 2, Upper |-> 4]}
ProblemEntries ==
    {[Name |-> "Wind Slab", Rank |-> 1, Likelihood |-> <<"l", "i", "k", "e", "l", "y">>,
      Size |-> <<"1", "2.5">>,
      Media |-> [Url |-> JsonObject([k \in {"original"} |-> JsonScalar("string", "https://a/original.jpg")])]],
     [Name |-> "Persistent Slab", Rank |-> 2, Likelihood |-> <<"p", "o", "s", "s", "i", "b", "l", "e">>,
      Size |-> <<"2">>,
      Media |-> [Url |-> JsonScalar("null", "")]]}
ZoneEntries ==
    {[Id |-> id, State |-> st, Url |-> u] : id \in {1, 2}, st \in {"WA", "CO"}, u \in {"", "https://z"}}
CenterOf(feature) == [Id |-> feature.Properties.CenterId, Name |-> "Avalanche Center"]

MkForecastResponse(feature, danger, problems, zones) ==
    [AvalancheCenter |-> CenterOf(feature), Danger |-> danger,
     ForecastAvalancheProblems |-> problems, ForecastZone |-> zones]

\* what the forecast provider answers for a zone
ResponseOf(feature) ==
    MkForecastResponse(feature, <<>>, <<>>, <<[Id |-> feature.Id, State |-> "WA", Url |-> ""]>>)

MappingInputs ==
    {[zone |-> PolygonFeature(id, <<Square>>),
      resp |-> MkForecastResponse(PolygonFeature(id, <<Square>>), d, p, z)] :
        id \in {1, 2},
        d \in SeqsUpTo(DangerEntries, MaxEntries),
        p \in SeqsUpTo(ProblemEntries, MaxEntries),
        z \in SeqsUpTo(ZoneEntries, MaxEntries)}

InitMapping ==
    /\ component = "mapping"
    /\ IdleServices
    /\ IdleMap
    /\ IdleZone
    /\ IdleLoc
    /\ fn = "none"
    /\ arg \in MappingInputs
    /\ out = 0
    /\ pc = "call"

CallMapForecastResponse ==
    /\ component = "mapping" /\ pc = "call"
    /\ fn' = "mapForecastResponse"
    /\ out' = mapForecastResponse(arg.zone, arg.resp)
    /\ pc' = "done"
    /\ UNCHANGED <<component, tzVars, wsVars, providerCalls, mapVars, zoneVars, locVars, arg>>

NextMapping == CallMapForecastResponse

SpecMapping == InitMapping /\ [][NextMapping]_vars

\* ------------------------------------------------------------------------
\* avalanche: avalancheService.GetForecast around GetMapLayer and FindZone
\* ------------------------------------------------------------------------
AvalancheError(msg) == [kind |-> "error", err |-> msg, forecast |-> [isNil |-> TRUE]]
AvalanchePanic == [kind |-> "panic", err |-> "nil pointer dereference",
                   forecast |-> [isNil |-> TRUE]]

\* if zone == nil
ZoneNeverMissing(z) == FALSE
ZoneMissing(z) == z.nil

InitAvalanche ==
    /\ component = "zone"
    /\ IdleServices
    /\ IdlePure
    /\ IdleMap
    /\ IdleLoc
    /\ rawLayer \in Layers
    /\ lat \in GridPoints
    /\ lon \in GridPoints
    /\ mapLayer = [err |-> FALSE, Features |-> <<>>]
    /\ fi = 0
    /\ ri = 0
    /\ tested = <<>>
    /\ inside = FALSE
    /\ zone = [nil |-> TRUE]
    /\ forecastProvider \in {"ok", "error"}
    /\ avRet = NoAvalancheReturn
    /\ pc = "decode"

\* what GetForecast does once GetMapLayer and FindZone have returned
AvalancheReturn ==
    /\ component = "zone" /\ pc = "done"
    /\ providerCalls' =
          IF mapLayer.err \/ ZoneMissing(zone) \/ zone.nil THEN providerCalls
          ELSE Append(providerCalls,
                      ProviderCall("forecastProvider", "GetForecast",
                                   <<zone.feature.Properties.CenterId, zone.feature.Id>>))
    /\ avRet' =
          IF mapLayer.err THEN AvalancheError("failed to get map layer")
          ELSE IF ZoneMissing(zone)
          THEN AvalancheError("no avalanche forecast zone found for coordinates")
          ELSE IF zone.nil THEN AvalanchePanic                 \* zone.Id
          ELSE IF forecastProvider = "error" THEN AvalancheError("failed to get forecast")
          ELSE [kind |-> "ok", err |-> "", forecast |-> mapForecastResponse(zone.feature, ResponseOf(zone.feature))]
    /\ pc' = "returned"
    /\ UNCHANGED <<component, tzVars, wsVars, pureVars, mapVars, locVars, forecastProvider, rawLayer, mapLayer,
                   lat, lon, fi, ri, tested, inside, zone>>

NextAvalanche == NextZone \/ AvalancheReturn

SpecAvalanche == InitAvalanche /\ [][NextAvalanche]_vars

\* ------------------------------------------------------------------------
\* types: NewWeather and the table of WMO weather codes
\* ------------------------------------------------------------------------
weatherDescriptions ==
    (0 :> "Clear sky") @@
    (1 :> "Mainly clear") @@
    (2 :> "Partly cloudy") @@
    (3 :> "Overcast") @@
    (45 :> "Fog") @@
    (48 :> "Depositing rime fog") @@
    (51 :> "Drizzle: Light intensity") @@
    (53 :> "Drizzle: Moderate intensity") @@
    (55 :> "Drizzle: Dense intensity") @@
    (56 :> "Freezing Drizzle: Light intensity") @@
    (57 :> "Freezing Drizzle: Dense intensity") @@
    (61 :> "Rainfall: Slight intensity") @@
    (63 :> "Rainfall: Moderate intensity") @@
    (65 :> "Rainfall: Heavy intensity") @@
    (66 :> "Freezing Rainfall: Light intensity") @@
    (67 :> "Freezing Rainfall: Heavy intensity") @@
    (71 :> "Snow fall: Slight intensity") @@
    (73 :> "Snow fall: Moderate intensity") @@
    (75 :> "Snow fall: Heavy intensity") @@
    (77 :> "Snow grains") @@
    (80 :> "Rainfall showers: Slight") @@
    (81 :> "Rainfall showers: Moderate") @@
    (82 :> "Rainfall showers: Violent") @@
    (85 :> "Snow showers: Slight") @@
    (86 :> "Snow showers: Heavy") @@
    (95 :> "Thunderstorm: Slight or moderate") @@
    (96 :> "Thunderstorm with slight hail") @@
    (99 :> "Thunderstorm with heavy hail")

DescriptionOrEmpty(code) ==
    IF code \in DOMAIN weatherDescriptions THEN weatherDescriptions[code] ELSE ""

GetWeatherDescription(code) ==
    IF code \in DOMAIN weatherDescriptions THEN weatherDescriptions[code] ELSE "Unknown"

NewWeather(code) == [Code |-> code, Description |-> GetWeatherDescription(code)]

CodeInputs == (0 - MaxCodeMargin)..(99 + MaxCodeMargin)

InitWeatherCode ==
    /\ component = "weathercode"
    /\ IdleServices
    /\ IdleMap
    /\ IdleZone
    /\ IdleLoc
    /\ fn = "none"
    /\ arg \in CodeInputs
    /\ out = 0
    /\ pc = "call"

CallNewWeather ==
    /\ component = "weathercode" /\ pc = "call"
    /\ fn' = "NewWeather"
    /\ out' = NewWeather(arg)
    /\ pc' = "done"
    /\ UNCHANGED <<component, tzVars, wsVars, providerCalls, mapVars, zoneVars, locVars, arg>>

NextWeatherCode == CallNewWeather

SpecWeatherCode == InitWeatherCode /\ [][NextWeatherCode]_vars

\* ------------------------------------------------------------------------
\* timezone: NewService, the singleton behind sync.Once, called by several
\* goroutines
\* ------------------------------------------------------------------------
Callers == 1..NumCallers

\* sync.Once: f runs when the Once has not been used; a caller that finds f
\* running waits until it has returned
OnceIgnored(o) == TRUE
OnceFresh(o) == o = "fresh"

InitTz ==
    /\ component = "timezone"
    /\ IdleMap
    /\ IdleZone
    /\ IdleLoc
    /\ IdlePure
    /\ IdleWs
    /\ providerCalls = <<>>
    /\ once = "fresh"
    /\ instance = 0
    /\ inits = 0
    /\ finderFails \in BOOLEAN
    /\ pcT = [c \in Callers |-> "start"]
    /\ errT = [c \in Callers |-> FALSE]
    /\ retT = [c \in Callers |-> NoService]
    /\ pc = "callers"

\* var err error; once.Do(func() { ... })
OnceDo(c) ==
    /\ component = "timezone" /\ pcT[c] = "start"
    /\ IF OnceFresh(once)
       THEN /\ once' = "running"
            /\ pcT' = [pcT EXCEPT ![c] = "finder"]
       ELSE /\ once = "done"
            /\ pcT' = [pcT EXCEPT ![c] = "check"]
            /\ once' = once
    /\ UNCHANGED <<component, pc, mapVars, zoneVars, locVars, pureVars, wsVars, providerCalls,
                   instance, inits, finderFails, errT, retT>>

\* finder, findErr := tzf.NewDefaultFinder(); if findErr != nil { err = ...;
\* return }; instance = &service{finder: finder}; and f returns
NewDefaultFinder(c) ==
    /\ component = "timezone" /\ pcT[c] = "finder"
    /\ inits' = inits + 1
    /\ IF finderFails
       THEN /\ errT' = [errT EXCEPT ![c] = TRUE]
            /\ instance' = instance
       ELSE /\ instance' = inits'
            /\ errT' = errT
    /\ once' = "done"
    /\ pcT' = [pcT EXCEPT ![c] = "check"]
    /\ UNCHANGED <<component, pc, mapVars, zoneVars, locVars, pureVars, wsVars, providerCalls,
                   finderFails, retT>>

\* if err != nil { return nil, err }; return instance, nil
NewServiceReturn(c) ==
    /\ component = "timezone" /\ pcT[c] = "check"
    /\ retT' = [retT EXCEPT ![c] =
                  IF errT[c]
                  THEN [kind |-> "returned", service |-> [isNil |-> TRUE, ptr |-> 0], err |-> TRUE]
                  ELSE [kind |-> "returned", service |-> [isNil |-> FALSE, ptr |-> instance],
                        err |-> FALSE]]
    /\ pcT' = [pcT EXCEPT ![c] = "returned"]
    /\ UNCHANGED <<component, pc, mapVars, zoneVars, locVars, pureVars, wsVars, providerCalls,
                   once, instance, inits, finderFails, errT>>

NextTz == \E c \in Callers : OnceDo(c) \/ NewDefaultFinder(c) \/ NewServiceReturn(c)

SpecTz == InitTz /\ [][NextTz]_vars

\* ------------------------------------------------------------------------
\* weather: weatherService.GetForecast around GetTimezone, the forecast
\* provider and mapForecastAPIResponseToForecast
\* ------------------------------------------------------------------------
WeatherError(msg) == [kind |-> "error", err |-> msg, forecast |-> [isNil |-> TRUE]]

\* if err != nil after GetTimezone
LookupNeverFails(result) == FALSE
LookupFailed(result) == result.err

\* what mapForecastAPIResponseToForecast returns for the response the
\* provider sends for a timezone: a full response in that timezone
MappedForecast(timezone) ==
    IF LoadLocationOk(timezone) THEN [kind |-> "ok", err |-> "", forecast |-> [isNil |-> FALSE]]
    ELSE WeatherError("failed to load timezone location")

TimezoneResults ==
    {[tz |-> t, err |-> FALSE] : t \in {"America/Denver", "UTC", "Invalid/Timezone"}}
        \cup {[tz |-> "", err |-> TRUE]}

InitWs ==
    /\ component = "wservice"
    /\ IdleMap
    /\ IdleZone
    /\ IdleLoc
    /\ IdlePure
    /\ IdleTz
    /\ providerCalls = <<>>
    /\ timezoneService \in TimezoneResults
    /\ weatherProvider \in {"ok", "error"}
    /\ tzName = ""
    /\ wsRet = NoForecast
    /\ pc = "lookup"

\* tz, err := s.timezoneService.GetTimezone(...); if err != nil { return nil, ... }
GetTimezone ==
    /\ component = "wservice" /\ pc = "lookup"
    /\ providerCalls' = Append(providerCalls, ProviderCall("timezoneService", "GetTimezone", <<>>))
    /\ IF LookupFailed(timezoneService)
       THEN /\ wsRet' = WeatherError("failed to determine timezone")
            /\ pc' = "returned"
            /\ tzName' = tzName
       ELSE /\ tzName' = timezoneService.tz
            /\ pc' = "fetch"
            /\ wsRet' = wsRet
    /\ UNCHANGED <<component, tzVars, mapVars, zoneVars, locVars, pureVars,
                   timezoneService, weatherProvider>>

\* apiResponse, err := s.forecastProvider.GetForecast(..., tz); if err != nil
\* { return nil, ... }; return mapForecastAPIResponseToForecast(...)
GetWeatherForecast ==
    /\ component = "wservice" /\ pc = "fetch"
    /\ providerCalls' = Append(providerCalls, ProviderCall("forecastProvider", "GetForecast", <<tzName>>))
    /\ wsRet' = IF weatherProvider = "error" THEN WeatherError("failed to get forecast")
                ELSE MappedForecast(tzName)
    /\ pc' = "returned"
    /\ UNCHANGED <<component, tzVars, mapVars, zoneVars, locVars, pureVars,
                   timezoneService, weatherProvider, tzName>>

NextWs == GetTimezone \/ GetWeatherForecast

\* the two services that call providers in a fixed order
InitServices == InitWs \/ InitAvalanche
NextServices == NextWs \/ NextAvalanche
SpecServices == InitServices /\ [][NextServices]_vars

\* every operation of the model
Init == InitMap \/ InitAvalanche \/ InitLoc \/ InitAggregate \/ InitSize \/ InitLikelihood \/ InitWind \/ InitUnits \/ InitMedia \/ InitMapping \/ InitWeatherCode \/ InitTz \/ InitWs
Next == NextMapTwice \/ NextAvalanche \/ NextLoc \/ NextAggregate \/ NextSize \/ NextLikelihood \/ NextWind \/ NextUnits \/ NextMedia \/ NextMapping \/ NextWeatherCode \/ NextTz \/ NextWs
Spec == Init /\ [][Next]_vars

\* ------------------------------------------------------------------------
\* Properties of GetForecastPoint
\* ------------------------------------------------------------------------
PointReturned == component = "location" /\ pc = "done" /\ fpRet.kind = "returned"
ElevationFailed == elevationProvider.err # NilErr
LocationFailed == locationProvider.err # NilErr

\* C9: when both fetches fail the returned error reports both underlying
\* errors; when exactly one fails the returned error is that call's error
\* alone, prefixed 'failed to get elevation' or 'failed to get location', and
\* the other call's result is discarded; in every failure case the returned
\* ForecastPoint is nil.
C9_ProviderErrors ==
    PointReturned =>
        /\ (ElevationFailed /\ LocationFailed) =>
              fpRet.err = <<"multiple errors",
                            "elevation", <<"failed to get elevation">> \o elevationProvider.err,
                            "location", <<"failed to get location">> \o locationProvider.err>>
        /\ (ElevationFailed /\ ~LocationFailed) =>
              fpRet.err = <<"failed to get elevation">> \o elevationProvider.err
        /\ (~ElevationFailed /\ LocationFailed) =>
              fpRet.err = <<"failed to get location">> \o locationProvider.err
        /\ (ElevationFailed \/ LocationFailed \/ fpRet.err # NilErr) => fpRet.point.isNil

\* C9 witness: both providers failed and the call returned the error naming both.
C9_Witness ==
    /\ PointReturned
    /\ ElevationFailed /\ LocationFailed
    /\ fpRet.err[1] = "multiple errors"
    /\ fpRet.point.isNil

\* what the call returns, as a function of the two calls' outcomes alone
OutcomeOf(ep, lp) ==
    IF ep.err # NilErr /\ lp.err # NilErr
    THEN [p |-> FALSE, e |-> <<"multiple errors", "elevation",
                               <<"failed to get elevation">> \o ep.err, "location",
                               <<"failed to get location">> \o lp.err>>]
    ELSE IF ep.err # NilErr THEN [p |-> FALSE, e |-> <<"failed to get elevation">> \o ep.err]
    ELSE IF lp.err # NilErr THEN [p |-> FALSE, e |-> <<"failed to get location">> \o lp.err]
    ELSE IF ep.resp.isNil THEN [p |-> FALSE, e |-> <<"elevation response is nil">>]
    ELSE IF lp.resp.isNil THEN [p |-> FALSE, e |-> <<"lookup response is nil">>]
    ELSE [p |-> TRUE, e |-> NilErr]

\* C10: the results and errors are read only after both calls have completed,
\* and under every interleaving and completion order the returned value is
\* the one the two outcomes determine.
C10_JoinBeforeRead ==
    component = "location" =>
        /\ (pc = "check" \/ PointReturned) =>
              (pcElevation = "exited" /\ pcLocation = "exited" /\ wg = 0)
        /\ PointReturned =>
              /\ fpRet.point.isNil = ~OutcomeOf(elevationProvider, locationProvider).p
              /\ fpRet.err = OutcomeOf(elevationProvider, locationProvider).e
              /\ ~fpRet.point.isNil =>
                    /\ fpRet.point.Elevation.Feet = elevationProvider.resp.Value
                    /\ fpRet.point.Location.State = locationProvider.resp.State
                    /\ fpRet.point.Coordinates = [Latitude |-> latitude, Longitude |-> longitude]

\* C10 witness: the location call completed before the elevation call and
\* the joined results were returned as a ForecastPoint.
C10_Witness ==
    /\ PointReturned
    /\ order = <<"location", "elevation">>
    /\ ~fpRet.point.isNil

\* ------------------------------------------------------------------------
\* Further properties of mapForecastAPIResponseToForecast
\* ------------------------------------------------------------------------
\* every HourlyForecast built so far: those of the finished days and those
\* of the day in progress
HourliesBuilt ==
    {hourlyForecasts[k] : k \in 1..Len(hourlyForecasts)}
    \cup UNION {{dailyForecasts[d].HourlyForecasts[k] :
                    k \in 1..Len(dailyForecasts[d].HourlyForecasts)} :
                d \in 1..Len(dailyForecasts)}
DailiesBuilt == {dailyForecasts[d] : d \in 1..Len(dailyForecasts)}

\* `liquid` holds the models of both source maps, each with the sum of the two
DerivedFrom(liquid, rain, showers) ==
    /\ DOMAIN liquid = DOMAIN rain \cap DOMAIN showers
    /\ \A m \in DOMAIN liquid : liquid[m].Inches = rain[m].Inches + showers[m].Inches

\* C11: in every HourlyForecast, LiquidPrecipitation holds exactly the models
\* present in both Rainfall and Showers, each with inches = rainfall inches +
\* showers inches; in every DailyForecast the same holds of
\* TotalLiquidPrecipitation with TotalRainfall and TotalShowers.
C11_LiquidIsRainPlusShowers ==
    component = "weather" =>
        /\ \A h \in HourliesBuilt :
              DerivedFrom(h.LiquidPrecipitation, h.Rainfall, h.Showers)
        /\ \A d \in DailiesBuilt :
              DerivedFrom(d.TotalLiquidPrecipitation, d.TotalRainfall, d.TotalShowers)

\* C11 witness: a returned Forecast holds an hour in which a model reports
\* both rain and showers and the derived map holds their sum.
C11_Witness ==
    /\ ReturnedForecast
    /\ \E d \in 1..Len(ret.forecast.DailyForecasts) :
          \E k \in 1..Len(ret.forecast.DailyForecasts[d].HourlyForecasts) :
              LET h == ret.forecast.DailyForecasts[d].HourlyForecasts[k]
              IN \E m \in DOMAIN h.LiquidPrecipitation :
                    /\ h.Rainfall[m].Inches > 0
                    /\ h.Showers[m].Inches > 0
                    /\ h.LiquidPrecipitation[m].Inches
                           = h.Rainfall[m].Inches + h.Showers[m].Inches

\* the current conditions have been assembled
ConditionsBuilt == component = "weather" /\ currentConditions # NoConditions

\* the map holds exactly the models of `expected`, whatever their values
HoldsExactly(w, expected) ==
    \A m \in Models \cup {"Hrrr"} :
        /\ HasModel(w, m) = (m \in expected)
        /\ GetForModel(w, m).ok = (m \in expected)

\* C12: whatever the response holds, CurrentConditions.Temperature holds
\* exactly the 7 models, CurrentConditions.Visibility exactly GfsSeamless,
\* EcmwIfs, NcepNbmConus and NcepNamConus, and the daily freezing-level maps
\* exactly GfsSeamless; HasModel and GetForModel report every other model as
\* not present and report a model of the set as present also when its value is 0.
C12_FixedModelSets ==
    /\ ConditionsBuilt =>
          /\ HoldsExactly(currentConditions.Temperature,
                          {"GemSeamless", "EcmwIfs", "GfsSeamless", "NcepNbmConus",
                           "GfsGraphcast025", "EcmwfAifs025Single", "NcepNamConus"})
          /\ HoldsExactly(currentConditions.Visibility,
                          {"GfsSeamless", "EcmwIfs", "NcepNbmConus", "NcepNamConus"})
    /\ component = "weather" =>
          \A d \in DailiesBuilt :
              /\ HoldsExactly(d.HighestFreezingLevelHeightFt, {"GfsSeamless"})
              /\ HoldsExactly(d.LowestFreezingLevelHeightFt, {"GfsSeamless"})

\* C12 witness: a returned Forecast whose current visibility is 0 for a model
\* of the visibility set, which is reported present, next to a daily entry.
C12_Witness ==
    /\ ReturnedForecast
    /\ Len(ret.forecast.DailyForecasts) >= 1
    /\ \E m \in DOMAIN ret.forecast.CurrentConditions.Visibility :
          /\ ret.forecast.CurrentConditions.Visibility[m] = 0
          /\ HasModel(ret.forecast.CurrentConditions.Visibility, m)
          /\ GetForModel(ret.forecast.CurrentConditions.Visibility, m).ok
    /\ ~HasModel(ret.forecast.CurrentConditions.Visibility, "GemSeamless")

\* the second invocation on the same inputs has returned
ReturnedTwice == component = "weather" /\ pc = "done" /\ calls = 2

\* C13: two invocations with equal forecast point, primary model and provider
\* response return equal values, and the response is the same after the
\* calls as before them.
C13_EqualInputsEqualForecasts ==
    ReturnedTwice =>
        /\ ret = previous.ret
        /\ apiResponse = previous.apiResponse

\* the 0-based positions of the daily series that hold a parseable date
ParseableDates == {i \in 0..(Len(DailyTime) - 1) : DailyTime[i + 1].layout = DateLayout}

\* C14: when the assembly has every array it reads, it returns a Forecast
\* whose DailyForecasts hold one entry per parseable date of the daily
\* series, in the series' order, each with that date as Timestamp and the
\* daily values of that date's own position; an unparseable date is skipped
\* and neither fails the assembly nor shifts the other days' entries.
C14_OneEntryPerParseableDate ==
    (component = "weather" /\ Returned /\ ZoneResolves /\ ~SomeArrayShort) =>
        /\ ret.kind = "ok"
        /\ LET idx == Ascending(ParseableDates)
               entries == ret.forecast.DailyForecasts
           IN /\ Len(entries) = Len(idx)
              /\ \A k \in 1..Len(idx) :
                    /\ entries[k].Timestamp = DailyTime[idx[k] + 1].v * HoursPerDay
                    /\ \A m \in Models :
                          entries[k].Weather[m]
                              = At(apiResponse.Daily.Series.WeatherCode[m], idx[k])

\* C14 witness: a returned Forecast for a three-date series whose middle date
\* is unparseable holds the entries of the first and the third date.
C14_Witness ==
    /\ ReturnedForecast
    /\ Len(DailyTime) = 3
    /\ ParseableDates = {0, 2}
    /\ Len(ret.forecast.DailyForecasts) = 2
    /\ ret.forecast.DailyForecasts[2].Timestamp = DailyTime[3].v * HoursPerDay

\* ------------------------------------------------------------------------
\* Properties of avalancheService.GetForecast
\* ------------------------------------------------------------------------
AvalancheReturned == component = "zone" /\ pc = "returned"

\* C15: when the map layer was fetched and no ring of any of its features
\* contains the coordinate, GetForecast returns the 'no avalanche forecast
\* zone found' error with a nil forecast, and does not panic.
C15_NoZoneIsAnError ==
    (AvalancheReturned /\ ~mapLayer.err /\ Containing = {}) =>
        /\ avRet.kind = "error"
        /\ avRet.err = "no avalanche forecast zone found for coordinates"
        /\ avRet.forecast.isNil

\* C15 witness: the layer holds zones, none contains the coordinate, and the
\* call returned the error.
C15_Witness ==
    /\ AvalancheReturned
    /\ ~mapLayer.err
    /\ Len(mapLayer.Features) >= 2
    /\ Containing = {}
    /\ avRet.kind = "error"
    /\ avRet.forecast.isNil

\* ------------------------------------------------------------------------
\* Further properties of GetForecastPoint
\* ------------------------------------------------------------------------
\* the call on a service built with NewLocationServiceWithProviders has ended
EndedWithProviders ==
    /\ component = "location" /\ pc = "done"
    /\ logger = NewLocationServiceWithProviders.logger

\* C16: on a service built with NewLocationServiceWithProviders, for every
\* combination of provider outcomes the call ends by returning exactly one
\* of a non-nil ForecastPoint or a non-nil error, and a nil elevation response
\* without error, next to a location call that did not fail, gives the error
\* 'elevation response is nil'.
C16_ReturnsPointOrError ==
    EndedWithProviders =>
        /\ fpRet.kind = "returned"
        /\ fpRet.point.isNil = (fpRet.err # NilErr)
        /\ (elevationProvider.resp.isNil /\ ~ElevationFailed /\ ~LocationFailed) =>
              fpRet.err = <<"elevation response is nil">>

\* ------------------------------------------------------------------------
\* Properties of minFloat, maxFloat and sum
\* ------------------------------------------------------------------------
Called(f) == pc = "done" /\ fn = f
Elements(q) == {q[k] : k \in 1..Len(q)}
Reversed(q) == [k \in 1..Len(q) |-> q[Len(q) + 1 - k]]
RECURSIVE Total(_)
Total(q) == IF q = <<>> THEN 0 ELSE Head(q) + Total(Tail(q))

\* C17: minFloat and maxFloat return -1 for the empty slice and otherwise the
\* least / greatest element, whatever the order of the elements; sum returns
\* 0 for the empty slice, a for [a] and the total of the elements otherwise.
C17_MinMaxSum ==
    component = "aggregate" =>
        /\ Called("minFloat") =>
              /\ out = (IF arg = <<>> THEN -1 ELSE SetMin(Elements(arg)))
              /\ out = minFloat(Reversed(arg))
        /\ Called("maxFloat") =>
              /\ out = (IF arg = <<>> THEN -1 ELSE SetMax(Elements(arg)))
              /\ out = maxFloat(Reversed(arg))
        /\ Called("sum") =>
              /\ arg = <<>> => out = 0
              /\ Len(arg) = 1 => out = arg[1]
              /\ out = Total(arg)

\* C17 witness: minFloat returned the middle element of a three-element
\* slice, smaller than the first and the last.
C17_Witness ==
    /\ component = "aggregate"
    /\ Called("minFloat")
    /\ Len(arg) = 3
    /\ out = arg[2]
    /\ out < arg[1]
    /\ out < arg[3]

\* ------------------------------------------------------------------------
\* Properties of parseSize
\* ------------------------------------------------------------------------
\* the values of the entries that parse as numbers
ParsedSizes == {ParseFloat(arg[k]).val : k \in {i \in 1..Len(arg) : ~ParseFloat(arg[i]).err}}

\* C18: parseSize returns the smallest and the largest of the entries that
\* parse as numbers, wherever the malformed entries stand, and {0, 0} when no
\* entry parses or the list is empty.
C18_ParseSizeMinMax ==
    (component = "size" /\ Called("parseSize")) =>
        out = (IF ParsedSizes = {} THEN [Min |-> 0, Max |-> 0]
               ELSE [Min |-> SetMin(ParsedSizes), Max |-> SetMax(ParsedSizes)])

\* ------------------------------------------------------------------------
\* Properties of ParseLikelihood
\* ------------------------------------------------------------------------
\* the letters of a string, lower-cased, without the white space at its ends
\* and without any space or underscore
IsSeparator(c) == c \in {" ", "_"}
KeepsLetter(c) == ~IsSeparator(c)
EndsTrimmed(s) ==
    LET keep == {k \in 1..Len(s) : s[k] \notin WhiteSpace}
    IN IF keep = {} THEN <<>> ELSE SubSeq(s, SetMin(keep), SetMax(keep))
Letters(s) == ToLower(SelectSeq(EndsTrimmed(s), KeepsLetter))
RECURSIVE Concat(_, _)
Concat(words, k) == IF k > Len(words) THEN <<>> ELSE words[k] \o Concat(words, k + 1)
\* the value of the likelihood name the string spells, 0 when it spells none
Spelled(s) ==
    LET hits == {n \in 1..Len(NameWords) : Letters(s) = Concat(NameWords[n], 1)}
    IN IF hits = {} THEN 0 ELSE CHOOSE n \in hits : TRUE

\* C19: ParseLikelihood gives each of the five likelihood names its value
\* 1..5 in every spelling that differs only in letter case, surrounding white
\* space, inner spaces and underscores, gives 0 for every other string and
\* always a value in 0..5.
C19_ParseLikelihoodNormalizes ==
    (component = "likelihood" /\ Called("ParseLikelihood")) =>
        /\ out \in 0..5
        /\ out = Spelled(arg)
        /\ \A n \in 1..Len(NameWords) : arg \in SpellingsOf(n) => out = n
        /\ arg \in OtherStrings => out = 0

\* C19 witness: the call on 'Very Likely' returned 4.
C19_Witness ==
    /\ component = "likelihood"
    /\ Called("ParseLikelihood")
    /\ arg = <<"V", "e", "r", "y", " ", "L", "i", "k", "e", "l", "y">>
    /\ out = 4

\* ------------------------------------------------------------------------
\* Properties of NewWindDirection
\* ------------------------------------------------------------------------
SixteenPoints ==
    {"N", "NNE", "NE", "ENE", "E", "ESE", "SE", "SSE",
     "S", "SSW", "SW", "WSW", "W", "WNW", "NW", "NNW"}

\* C20: for 0 <= d < 360, NewWindDirection(d) has Degrees = d and a Cardinal
\* of the 16-point table, never empty and never 'Unknown'; for d < 0 or
\* d >= 360 it has Degrees = -1 and Cardinal = 'Unknown'.
C20_WindDirection ==
    (component = "wind" /\ Called("NewWindDirection")) =>
        IF 0 <= arg /\ arg < 360
        THEN /\ out.Degrees = arg
             /\ out.Cardinal \in SixteenPoints
             /\ out.Cardinal # ""
             /\ out.Cardinal # "Unknown"
        ELSE /\ out.Degrees = -1
             /\ out.Cardinal = "Unknown"

\* C20 witness: 359 degrees, whose sector index wraps from 16 to 0, gave 'N'.
C20_Witness ==
    /\ component = "wind"
    /\ Called("NewWindDirection")
    /\ arg = 359
    /\ out.Degrees = 359
    /\ out.Cardinal = "N"

\* the 16-point table in bearing order, N first
CompassRose ==
    <<"N", "NNE", "NE", "ENE", "E", "ESE", "SE", "SSE",
      "S", "SSW", "SW", "WSW", "W", "WNW", "NW", "NNW">>

\* the sector whose centre k * 22.5 lies within 11.25 degrees of d, in
\* quarter degrees: 90k - 45 <= 4d < 90k + 45; sector 16 is sector 0 again
SectorOf(d) == CHOOSE k \in 0..Len(CompassRose) : 90 * k - 45 <= 4 * d /\ 4 * d < 90 * k + 45

\* C21: for 0 <= d < 360 the label of NewWindDirection(d) is entry
\* floor(d/22.5 + 0.5) mod 16 of the table, the label of the 22.5-degree
\* sector centred on its bearing; 349..359 and 0..11 all give N.
C21_SectorLabel ==
    (component = "wind" /\ Called("NewWindDirection") /\ 0 <= arg /\ arg < 360) =>
        /\ out.Cardinal = CompassRose[(SectorOf(arg) % 16) + 1]
        /\ (arg >= 349 \/ arg <= 11) => out.Cardinal = "N"
        /\ (arg >= 12 /\ arg <= 33) => out.Cardinal = "NNE"
        /\ (arg >= 327 /\ arg <= 348) => out.Cardinal = "NNW"

\* C21 witness: 349 degrees, the first bearing of the wrapped half of the
\* sector of N, gave 'N'.
C21_Witness ==
    /\ component = "wind"
    /\ Called("NewWindDirection")
    /\ arg = 349
    /\ out.Cardinal = "N"

\* ------------------------------------------------------------------------
\* Properties of the unit constructors
\* ------------------------------------------------------------------------
\* C22: every unit constructor stores the input scalar in the base-unit
\* field and the input scalar times one fixed factor of the type, the
\* secondary value of the scalar 1, in the secondary-unit field.
C22_BaseAndFixedFactor ==
    component = "units" =>
        /\ Called("NewTemperatureFromFahrenheit") =>
              /\ out.Fahrenheit = arg
              /\ out.CelsiusNinths = arg * NewTemperatureFromFahrenheit(1).CelsiusNinths
        /\ Called("NewPrecipitationFromInches") =>
              /\ out.Inches = arg
              /\ out.MmTenths = arg * NewPrecipitationFromInches(1).MmTenths
        /\ Called("NewWindSpeedFromMph") =>
              /\ out.Mph = arg
              /\ out.KphE5 = arg * NewWindSpeedFromMph(1).KphE5
        /\ Called("NewSnowDepthFromFeet") =>
              /\ out.Feet = arg
              /\ out.MetersE4 = arg * NewSnowDepthFromFeet(1).MetersE4
        /\ Called("NewElevationFromFeet") =>
              /\ out.Feet = arg
              /\ out.MetersE4 = arg * NewElevationFromFeet(1).MetersE4

\* C22 (as amended): every unit constructor stores the input scalar in the
\* base-unit field; precipitation, wind speed, snow depth and elevation store
\* the scalar times the fixed factor of the type (25.4, 1.60934, 0.3048,
\* 0.3048) in the secondary field, and temperature stores the scalar less 32,
\* times 5/9.
C22_BaseAndConversion ==
    component = "units" =>
        /\ Called("NewTemperatureFromFahrenheit") =>
              /\ out.Fahrenheit = arg
              /\ out.CelsiusNinths = (arg - 32) * 5
        /\ Called("NewPrecipitationFromInches") =>
              /\ out.Inches = arg
              /\ out.MmTenths = arg * 254
        /\ Called("NewWindSpeedFromMph") =>
              /\ out.Mph = arg
              /\ out.KphE5 = arg * 160934
        /\ Called("NewSnowDepthFromFeet") =>
              /\ out.Feet = arg
              /\ out.MetersE4 = arg * 3048
        /\ Called("NewElevationFromFeet") =>
              /\ out.Feet = arg
              /\ out.MetersE4 = arg * 3048

C22_Witness ==
    /\ component = "units"
    /\ Called("NewTemperatureFromFahrenheit")
    /\ arg = 0
    /\ out = [Fahrenheit |-> 0, CelsiusNinths |-> 0 - 160]

\* ------------------------------------------------------------------------
\* Properties of extractMediaURL
\* ------------------------------------------------------------------------
\* The size-variant object of the feed: every size member it has is a string.
SizeVariants(raw) ==
    /\ raw.t = "object"
    /\ \A k \in DOMAIN raw.members \cap SizeKeys : raw.members[k].t = "string"

OriginalOf(raw) ==
    IF "original" \in DOMAIN raw.members THEN raw.members["original"].s ELSE ""

Matching(feature, resp) ==
    {k \in 1..Len(resp.ForecastZone) : resp.ForecastZone[k].Id = feature.Id}

\* C24: mapForecastResponse returns a non-nil forecast whose DangerRatings
\* and Problems follow the danger list and the problem list of the response
\* entry by entry, whose Zone id and name are those of the feature feature, and
\* whose Zone.State is the state of the first forecast-feature entry with the
\* id of the feature, empty when there is none.
C24_ForecastMapped ==
    (component = "mapping" /\ Called("mapForecastResponse")) =>
        LET feature == arg.zone
            resp == arg.resp
        IN /\ ~out.isNil
           /\ Len(out.DangerRatings) = Len(resp.Danger)
           /\ \A k \in 1..Len(resp.Danger) :
                 /\ out.DangerRatings[k].ValidDay = resp.Danger[k].ValidDay
                 /\ out.DangerRatings[k].Lower = resp.Danger[k].Lower
                 /\ out.DangerRatings[k].Middle = resp.Danger[k].Middle
                 /\ out.DangerRatings[k].Upper = resp.Danger[k].Upper
           /\ Len(out.Problems) = Len(resp.ForecastAvalancheProblems)
           /\ \A k \in 1..Len(resp.ForecastAvalancheProblems) :
                 /\ out.Problems[k].Name = resp.ForecastAvalancheProblems[k].Name
                 /\ out.Problems[k].Rank = resp.ForecastAvalancheProblems[k].Rank
           /\ out.Zone.Id = feature.Id
           /\ out.Zone.Name = feature.Properties.Name
           /\ IF Matching(feature, resp) = {} THEN out.Zone.State = ""
              ELSE \E k \in Matching(feature, resp) :
                      /\ \A m \in Matching(feature, resp) : k <= m
                      /\ out.Zone.State = resp.ForecastZone[k].State

C24_Witness ==
    /\ component = "mapping"
    /\ Called("mapForecastResponse")
    /\ Len(arg.resp.Danger) = 2
    /\ arg.resp.Danger[1] # arg.resp.Danger[2]
    /\ Len(arg.resp.ForecastAvalancheProblems) = 2
    /\ arg.resp.ForecastAvalancheProblems[1] # arg.resp.ForecastAvalancheProblems[2]
    /\ Matching(arg.zone, arg.resp) = {1, 2}
    /\ arg.resp.ForecastZone[1].State = "CO"
    /\ arg.resp.ForecastZone[2].State = "WA"
    /\ out.Zone.State = "CO"

\* ------------------------------------------------------------------------
\* Properties of NewWeather
\* ------------------------------------------------------------------------
\* the codes of the WMO table
WmoCodes ==
    {0, 1, 2, 3, 45, 48, 51, 53, 55, 56, 57, 61, 63, 65, 66, 67, 71, 73, 75, 77, 80, 81, 82, 85, 86, 95, 96, 99}

\* C25: NewWeather keeps the code; a code of the WMO table carries the
\* description of the table, which is never 'Unknown', and every other code
\* carries 'Unknown'.
C25_WeatherDescription ==
    (component = "weathercode" /\ Called("NewWeather")) =>
        /\ out.Code = arg
        /\ arg \in WmoCodes =>
              /\ out.Description = weatherDescriptions[arg]
              /\ out.Description # "Unknown"
        /\ arg \notin WmoCodes => out.Description = "Unknown"

C25_Witness ==
    /\ component = "weathercode"
    /\ Called("NewWeather")
    /\ arg = 45
    /\ out = [Code |-> 45, Description |-> "Fog"]

\* ------------------------------------------------------------------------
\* Properties of the hourly cursor of the day bucketing
\* ------------------------------------------------------------------------
\* the hourly entries that parse are in ascending order of time
TimeOrdered(series) ==
    \A a, b \in 1..Len(series) :
        (/\ a < b
         /\ ~ParseInLocation(HourLayout, series[a]).err
         /\ ~ParseInLocation(HourLayout, series[b]).err)
            => ParseInLocation(HourLayout, series[a]).t <= ParseInLocation(HourLayout, series[b]).t

\* the hourly entry the loop is on is of an earlier day than the entry at the cursor
BehindTheCursor ==
    /\ InRange(apiResponse.Hourly.Time, j)
    /\ InRange(apiResponse.Hourly.Time, hourlyIndex)
    /\ ~ParseInLocation(HourLayout, At(apiResponse.Hourly.Time, j)).err
    /\ ~ParseInLocation(HourLayout, At(apiResponse.Hourly.Time, hourlyIndex)).err
    /\ DateOf(ParseInLocation(HourLayout, At(apiResponse.Hourly.Time, j)).t)
          < DateOf(ParseInLocation(HourLayout, At(apiResponse.Hourly.Time, hourlyIndex)).t)

\* C26: during the day bucketing the days are taken in the order of the
\* daily series, the hourly cursor never decreases, the scan of a day starts
\* at the cursor and never goes before it, and in a time-ordered hourly
\* series no entry of an earlier day than the entry at the cursor is visited.
C26_CursorNeverGoesBack ==
    [][component = "weather" =>
          /\ hourlyIndex' >= hourlyIndex
          /\ dayI' >= dayI
          /\ (pc = "days" /\ pc' = "hours") => j' = hourlyIndex
          /\ pc' = "hours" => j' >= hourlyIndex'
          /\ (pc' = "hours" /\ TimeOrdered(apiResponse.Hourly.Time)) => ~BehindTheCursor']_vars

\* the scan of the second day has started where the first day left the cursor
C26_Witness ==
    /\ component = "weather"
    /\ pc = "hours"
    /\ dayI = 1
    /\ hourlyIndex = HoursPerDay - 1
    /\ j = hourlyIndex
    /\ Len(apiResponse.Hourly.Time) > HoursPerDay

\* ------------------------------------------------------------------------
\* Properties of timezone.NewService
\* ------------------------------------------------------------------------
HasReturned(c) == retT[c].kind = "returned"

\* C27: in every interleaving of the callers tzf.NewDefaultFinder is called
\* at most once, and the calls that return no error all return the same
\* instance.
C27_OneFinderOneInstance ==
    component = "timezone" =>
        /\ inits <= 1
        /\ \A c, d \in Callers :
              (HasReturned(c) /\ HasReturned(d) /\ ~retT[c].err /\ ~retT[d].err)
                  => retT[c].service = retT[d].service

C27_Witness ==
    /\ component = "timezone"
    /\ inits = 1
    /\ \A c \in Callers :
          HasReturned(c) /\ ~retT[c].err /\ retT[c].service = [isNil |-> FALSE, ptr |-> 1]

\* C28: every call of NewService returns a service with no error or an
\* error, and once the finder has failed to initialise every call returns
\* an error.
C28_ServiceOrError ==
    component = "timezone" =>
        \A c \in Callers :
            HasReturned(c) =>
                /\ \/ (retT[c].service.ptr # 0 /\ ~retT[c].err)
                   \/ retT[c].err
                /\ finderFails => retT[c].err

\* ------------------------------------------------------------------------
\* Properties of the edges pointInPolygon looks at
\* ------------------------------------------------------------------------
EdgesTested == PipEdges(lat, lon, tested[1], 0, Len(tested[1]) - 1)

\* C29: pointInPolygon evaluates the division by yj - yi only for an edge
\* whose ends are on different sides of the latitude of the point, so the
\* divisor is never zero and an edge of constant latitude never toggles the
\* result; every index it reads is inside the ring, and for an empty ring it
\* reads nothing and returns false.
C29_DivisionOnlyAcrossTheLatitude ==
    (component = "zone" /\ tested # <<>>) =>
        /\ \A k \in 1..Len(EdgesTested) :
              LET e == EdgesTested[k]
              IN /\ e.divided => ((e.yi > lat) # (e.yj > lat)) /\ e.divisor # 0
                 /\ e.yi = e.yj => ~e.toggled
                 /\ InRange(tested[1], e.i) /\ InRange(tested[1], e.j)
        /\ inside = (Cardinality({k \in 1..Len(EdgesTested) : EdgesTested[k].toggled}) % 2 = 1)
        /\ tested[1] = <<>> => (EdgesTested = <<>> /\ ~inside)

\* a ring with an edge along the latitude of the point was tested
C29_Witness ==
    /\ component = "zone"
    /\ tested # <<>>
    /\ inside
    /\ \E k \in 1..Len(EdgesTested) :
          /\ EdgesTested[k].yi = lat
          /\ EdgesTested[k].yj = lat
          /\ ~EdgesTested[k].divided
    /\ \E k \in 1..Len(EdgesTested) : EdgesTested[k].divided

\* ------------------------------------------------------------------------
\* Properties of the order of the provider calls
\* ------------------------------------------------------------------------
ForecastCalls ==
    {k \in 1..Len(providerCalls) : providerCalls[k].provider = "forecastProvider"}

FailedResult(r) == r.kind = "error" /\ r.forecast.isNil /\ r.err # ""

\* C30: weatherService.GetForecast calls the forecast provider only after a
\* timezone lookup that succeeded, with the timezone it resolved;
\* avalancheService.GetForecast calls the forecast provider only after the
\* map layer was fetched and a zone was found, with the center id and the id
\* of that zone; after a failed step no further provider is called and the
\* result is a nil forecast with an error.
C30_OrderedAndShortCircuit ==
    /\ component = "wservice" =>
          /\ \A k \in ForecastCalls :
                /\ k = 2
                /\ providerCalls[1].provider = "timezoneService"
                /\ ~timezoneService.err
                /\ providerCalls[k].args = <<timezoneService.tz>>
          /\ pc = "returned" =>
                /\ timezoneService.err =>
                      (FailedResult(wsRet) /\ Len(providerCalls) = 1)
                /\ (weatherProvider = "error" /\ ~timezoneService.err) =>
                      (FailedResult(wsRet) /\ Len(providerCalls) = 2)
                /\ wsRet.kind = "error" => FailedResult(wsRet)
    /\ component = "zone" =>
          /\ \A k \in ForecastCalls :
                /\ k = 2
                /\ providerCalls[1].provider = "mapLayerProvider"
                /\ ~mapLayer.err
                /\ ~zone.nil
                /\ providerCalls[k].args = <<zone.feature.Properties.CenterId, zone.feature.Id>>
          /\ pc = "returned" =>
                /\ (mapLayer.err \/ zone.nil) =>
                      (FailedResult(avRet) /\ Len(providerCalls) = 1)
                /\ (forecastProvider = "error" /\ ~mapLayer.err /\ ~zone.nil) =>
                      (FailedResult(avRet) /\ Len(providerCalls) = 2)
                /\ avRet.kind = "error" => FailedResult(avRet)

C30_Witness ==
    /\ component = "wservice"
    /\ pc = "returned"
    /\ wsRet.kind = "ok"
    /\ providerCalls = <<ProviderCall("timezoneService", "GetTimezone", <<>>),
                         ProviderCall("forecastProvider", "GetForecast", <<"UTC">>)>>

====
